---- MODULE Spec2Model ----
(***************************************************************************)
(* SPFetcherBase: the initialization gate (status + queue), the site       *)
(* registry (sites / webs) and the gated utilities of SPFetcherInitializer *)
(* and SPFetcherUtils, as a state machine over the JavaScript job queue.   *)
(*                                                                         *)
(* Execution model: JavaScript is single threaded.  Every method call runs *)
(* its synchronous part atomically (one action); every promise reaction    *)
(* (a .then / .catch callback) is a job appended to the FIFO job queue     *)
(* `jobs` and run by the action RunJob, head first.  Calls of the public   *)
(* methods come from consumer code that may run between any two jobs.      *)
(* The promise startupRoutines() returns is the consumer's: it settles at  *)
(* any later point (StartupSettles).                                       *)
(*                                                                         *)
(* The class modelled is the multi-site SPFetcherInitializer, the one that *)
(* keeps the handle table this.webs (SPFetcher.initializer.ts, 1-208).     *)
(* Spec is the gate with raw transport requests (fetch); SpecSites is the  *)
(* site registry with the handle utilities (Web, getWeb, getFieldInfo).    *)
(*                                                                         *)
(* Further specifications, each over its own part of the state:            *)
(*   SpecSingle  the single-handle class (initialize, getWeb, setSite);    *)
(*   SpecBatch   autoBatch: slots, window timers and grace timers;         *)
(*   SpecOrder   autoBatch with the factories of two timeouts;             *)
(*   SpecTypes   getContentTypeIds and its cache this.contentTypes;        *)
(*   SpecTax     buildTaxonomyPath: closest parent, then the writes;       *)
(*   SpecLibs    the default-library utilities and isDefaultLibrary;       *)
(*   SpecTerms   getTermsetById: the url of the term-store query;          *)
(*   SpecFields  getFieldInfo: the batched field queries and the result.   *)
(* Spec, SpecSites, SpecSingle and SpecTerms start from a new object, the  *)
(* others from an initialized one.                                         *)
(***************************************************************************)
EXTENDS Naturals, Integers, Sequences, FiniteSets, TLC

VARIABLES
    status,     \* this.status
    queue,      \* this.queue: the resolve functions waiting for 'ready'
    context,    \* this.context
    sites,      \* this.sites: site key -> url
    urls,       \* this.urls: absolute / base
    webs,       \* this.webs: site key -> memoized handle
    jobs,       \* the promise job (microtask) queue
    inits,      \* one record per initialize() call: position of its chain
    ops,        \* one record per gated utility call
    nHandles,   \* number of handles the Web factory has constructed
    built,      \* site key -> number of handles Web(site) constructed for it
    web,        \* this.web of the single-handle class
    made,       \* initialize() call -> the handle its getWeb() resolved with
    arg,        \* setSite call -> the argument it passed to getWeb
    batches,    \* this.batches: batch key -> the slot in the table (0: undefined)
    slots,      \* every slot { batch, count } autoBatch created, in creation order
    timers,     \* the pending setTimeout callbacks, in the order they were set
    factories,  \* the batch keys whose autoBatch(timeout, site) has resolved
    contentTypes, \* this.contentTypes: cache key -> { callbacks, StringIds }
    callers,    \* the getContentTypeIds calls, in call order, and their results
    lookups,    \* gated call -> the content-type lookup it runs
    taxPc,      \* buildTaxonomyPath: the position of the one modelled call
    taxReq,     \* its argument new_path, a string
    taxTerms,   \* the terms getTermsetById resolved with, in returned order
    taxMatch,   \* [highscore, highterm] of getTaxonomyClosestParent
    taxWrites,  \* the CreateTaxonomyItem requests posted, in order
    taxRes,     \* the identifier buildTaxonomyPath resolved with
    taxErr,     \* the error buildTaxonomyPath rejected with
    libs,       \* one record per call of a default-library utility
    requests,   \* getTermsetById call -> the url it passed and the url sent
    fieldInfo   \* getFieldInfo: the field queries of the one modelled call

\* The fields of the single-handle class (SPFetcher.initializer.ts, 210-369)
singleVars == <<web, made, arg>>

\* What the gate and the site registry leave alone
\* The batch multiplexer (SPFetcher.initializer.ts, 181-207)
batchVars == <<batches, slots, timers, factories>>

\* The content-type cache (SPFetcherUtils.getContentTypeIds)
typeVars == <<contentTypes, callers, lookups>>

\* The taxonomy path builder (SPFetcher.buildInterfaces.ts, 311-396)
taxVars == <<taxPc, taxReq, taxTerms, taxMatch, taxWrites, taxRes, taxErr>>

\* The library utilities (SPFetcherUtils.isDefaultLibrary)
libVars == <<libs>>

\* The term-store query (SPFetcherUtils.getTermsetById)
termVars == <<requests>>

\* The field queries (SPFetcherUtils.getFieldInfo)
fieldVars == <<fieldInfo>>

extVars == <<singleVars, batchVars, typeVars, taxVars, libVars, termVars,
             fieldVars>>

\* What the single-handle class leaves alone, what the multiplexer does, and
\* what the content-type cache does
notSingle == <<batchVars, typeVars, taxVars, libVars, termVars, fieldVars>>
notBatch == <<singleVars, typeVars, taxVars, libVars, termVars, fieldVars>>
notTypes == <<singleVars, batchVars, taxVars, libVars, termVars, fieldVars>>
notTax == <<singleVars, batchVars, typeVars, libVars, termVars, fieldVars>>
notLibs == <<singleVars, batchVars, typeVars, taxVars, termVars, fieldVars>>
notTerms == <<singleVars, batchVars, typeVars, taxVars, libVars, fieldVars>>
notFields == <<singleVars, batchVars, typeVars, taxVars, libVars, termVars>>

\* The fields of the gate and the site registry
gateVars == <<status, queue, context, sites, urls, webs, jobs, inits, ops,
              nHandles, built>>

vars == <<status, queue, context, sites, urls, webs, jobs, inits, ops,
          nHandles, built, extVars>>

----------------------------------------------------------------------------
(* Bounds *)

MaxInits == 3       \* initialize() calls per behaviour of Spec
MaxOps == 2         \* gated utility calls per behaviour
MaxSiteInits == 1   \* initialize() calls per behaviour of SpecSites
MaxBatchCalls == 52 \* calls of batch factories per behaviour of SpecBatch
MaxSlots == 3       \* slots created per behaviour of SpecBatch
MaxOrderCalls == 4  \* calls of batch factories per behaviour of SpecOrder
MaxTypeInits == 2   \* initialize() calls per behaviour of SpecTypes
MaxTypeCalls == 2   \* getContentTypeIds calls per behaviour of SpecTypes
MaxSegs == 3        \* segments of a taxonomy path
MaxTerms == 2       \* terms getTermsetById returns
MaxDepth == 2       \* segments of the path of a returned term
MaxLibCalls == 2    \* isDefaultLibrary() calls per behaviour of SpecLibs
MaxTypes == 3       \* content types in the list getFieldInfo queries
MaxFields == 2      \* fields one field query returns

----------------------------------------------------------------------------
(* Values *)

\* Urls are sequences of tokens; the undefined url is the empty sequence.
Undefined == <<>>
NoContext == "undefined"

\* Plugin host contexts: two tenants and one host outside sharepoint.com.
Contexts == {"ctxA", "ctxB", "ctxX"}

\* context.pageContext.site.absoluteUrl
AbsoluteUrl(ctx) ==
    CASE ctx = "ctxA" -> <<"https://a", ".sharepoint.com", "/sites/one">>
      [] ctx = "ctxB" -> <<"https://b", ".sharepoint.com", "/sites/two">>
      [] OTHER        -> <<"https://intranet.local", "/sites/x">>

\* `${url}`.match(/(.*).sharepoint.com/): the positions where the literal ends.
MatchEnds(url) == {i \in 2..Len(url) : url[i] = ".sharepoint.com"}

\* match(...)[0]: the greedy match, from the start through the last occurrence.
MatchBase(url) ==
    SubSeq(url, 1, CHOOSE i \in MatchEnds(url) : \A j \in MatchEnds(url) : j <= i)

SiteKeys == {"default", "current", "base", "alias"}
\* The site keys the modelled callers pass; "none" is an omitted argument.
CallSites == {"default", "alias"}
NoSite == "none"

NoHandle == [id |-> 0, url |-> Undefined]
\* The Web(url) factory of the REST library: a new handle bound to url.
NewWeb(n, url) == [id |-> n + 1, url |-> url]

NoErr == "none"
TypeError == "TypeError"
StartupErrors == {"E1"}

\* An initialize call: its position, whether it was queued, the error thrown
\* in its chain, the error it rejected with, and the context it stored
\* (this.context = context; a queued call stores none).
NoInit == [pc |-> "new", queued |-> FALSE, thrown |-> NoErr, err |-> NoErr,
           ctx |-> NoContext]
\* A gated call: its position (st), what was called, and what held when it was
\* called: the number of initialize() calls made (ninit), this.status (stAt),
\* whether its site key had no handle (uncached) and no url (unreg).
NoOp == [st |-> "new", kind |-> "fetch", site |-> NoSite, ninit |-> 0,
         stAt |-> "new", uncached |-> FALSE, unreg |-> FALSE,
         h |-> NoHandle, runs |-> 0]

Job(k, id, n, e) == [k |-> k, id |-> id, n |-> n, e |-> e]

\* Batch keys `[${timeout}ms] - ${site}`, as <<timeout, site>>: the key of the
\* defaults of autoBatch.  The table is indexed by key and a factory reads and
\* writes the entry of its own key only.
BatchKeys == {<<50, "default">>}

\* The keys of SpecOrder: the default key and the key of autoBatch(10).
OrderKeys == BatchKeys \cup {<<10, "default">>}
BatchCap == 50      \* count >= 50 retires the slot
GraceDelay == 5     \* setTimeout(() => batch.execute(), 5)
NoSlot == 0

\* The { site, list } arguments of the modelled callers; an omitted list is
\* "none" like an omitted site.
\* The contexts initialize is called with in SpecTypes
TypeContexts == {"ctxA", "ctxX"}
NoList == "none"
\* The third is the list titled 'list' of the current site.
TypeArgs == {<<NoSite, NoList>>, <<"alias", "Docs">>, <<NoSite, "list">>}
\* key = `[${site || 'site'}]-[${list || 'list'}]`
KeyOf(site, list) == <<IF site = NoSite THEN "site" ELSE site,
                       IF list = NoList THEN "list" ELSE list>>
TypeKeys == {KeyOf(a[1], a[2]) : a \in TypeArgs}
\* StringIds: undefined until stored; the lists a lookup can return
NoIds == <<"undefined">>
IdLists == {<<>>, <<"0x01", "0x0101">>}
LookupErrors == {"E404"}
NoEntry == [made |-> FALSE, ids |-> NoIds, callbacks |-> <<>>]
\* The lookup a gated call o runs: its position, its cache key, the list the
\* remote call returned, the error it failed with.
\* scope is the { site, list } whose content types the lookup reads.
NoLookup == [st |-> "none", key |-> <<"site", "list">>, val |-> NoIds,
             err |-> NoErr, scope |-> <<NoSite, NoList>>]

\* Strings are sequences of characters; the names of terms are one character.
Names == {"A", "B"}
Sep == ";"
\* Identifiers: of the termset, of the i-th returned term, of the k-th term
\* the term store creates.
NoId == <<"undefined">>
TermsetId == <<"termset">>
TermId(i) == <<"term", ToString(i)>>
CreatedId(k) == <<"created", ToString(k)>>
\* The Id of a term as the term store sends it: '/Guid(<id>)/'
RawId(id) == <<"/", "Guid(">> \o id \o <<")", "/">>
\* [-1, undefined], the start value of the reduce; a term is named by its
\* position in the returned list, 0 is undefined.
NoMatch == [score |-> -1, term |-> 0]

NInit == Cardinality({c \in 1..MaxInits : inits[c].pc # "new"})
NOps == Cardinality({o \in 1..MaxOps : ops[o].st # "new"})

----------------------------------------------------------------------------
(* Pure parts of the code *)

\* ready(): the promise resolves at once in these statuses, else it is queued.
ReadyNow(st) == st \in {"ready", "initializing"}

\* initialize(): the call is queued in this status, else it starts a cycle.
InitQueued(st) == st = "initializing"

\* Mutant of WebMemo: the memoized handle is ignored, every call constructs.
WebMemoAlwaysNew(w, s, n, url) == NewWeb(n, url)

\* Web(site): this.webs[site] = this.webs[site] || Web(this.sites[site])
WebMemo(w, s, n, url) == IF w[s] # NoHandle THEN w[s] ELSE NewWeb(n, url)

\* Mutant of SiteUrl: an unregistered key falls back to the default url.
SiteUrlOrDefault(ss, s) == IF ss[s] = Undefined THEN ss["default"] ELSE ss[s]

\* this.sites[site], the url Web(site) and getWeb(site) hand to the factory
SiteUrl(ss, s) == ss[s]

\* getFieldInfo: if (site && !this.sites[site]) this.sites[site] = site
RegisterSite(ss, s) ==
    IF s # NoSite /\ ss[s] = Undefined THEN [ss EXCEPT ![s] = <<s>>] ELSE ss

\* getWeb(site): site ? Web(this.sites[site]) : Web(context...absoluteUrl)
GetWebUrl(ss, ctx, s) == IF s # NoSite THEN SiteUrl(ss, s) ELSE AbsoluteUrl(ctx)

\* setSite: this.sites[site] || this.sites.default
SetSiteUrl(ss, s) ==
    IF s # NoSite /\ ss[s] # Undefined THEN ss[s] ELSE ss["default"]

\* this.sites[u] for a url u used as a site key: only a key spelled like the
\* url has an entry.
SitesAt(ss, u) ==
    IF \E k \in SiteKeys : <<k>> = u
    THEN ss[CHOOSE k \in SiteKeys : <<k>> = u]
    ELSE Undefined

\* Mutant of CapReached: the slot is retired one call too late.
CapReachedLate(n) == n > BatchCap

\* autoBatch: this.batches[key].count >= 50
CapReached(n) == n >= BatchCap

\* Mutant of Counted: the factory hands the batch out without counting.
NotCounted(n) == n

\* the factory: this.batches[key].count += 1
Counted(n) == n + 1

\* Mutant of AfterCapCheck: the count is not looked at.
AfterCapKeeps(b, sl, key) == b[key]

\* autoBatch: if (batches[key] && batches[key].count >= 50) batches[key] = undefined
AfterCapCheck(b, sl, key) ==
    IF b[key] # NoSlot /\ CapReached(sl[b[key]].count) THEN NoSlot ELSE b[key]

\* Mutant of TimerClears: the callback leaves the table alone.
TimerKeeps(b, key) == b

\* the window timer callback: this.batches[key] = undefined
TimerClears(b, key) == [b EXCEPT ![key] = NoSlot]

\* Mutant of Due: the pending timers fire in any order.
DueAny(tm, i) == TRUE

\* setTimeout order: a timer set earlier with a delay not longer than that of
\* timer i is due first.
Due(tm, i) == \A j \in 1..(i - 1) : tm[j].delay > tm[i].delay

Without(tm, i) == SubSeq(tm, 1, i - 1) \o SubSeq(tm, i + 1, Len(tm))

\* Mutant of ArmGrace: the window callback sets no second timer.
ArmNothing(tm, i, s) == Without(tm, i)

\* Mutant of ArmGrace: the window callback sets the second timer twice.
ArmTwice(tm, i, s) ==
    Without(tm, i) \o <<[kind |-> "grace", slot |-> s, delay |-> GraceDelay],
                        [kind |-> "grace", slot |-> s, delay |-> GraceDelay]>>

\* the window timer callback: setTimeout(() => { batch.execute(); }, 5)
ArmGrace(tm, i, s) ==
    Append(Without(tm, i), [kind |-> "grace", slot |-> s, delay |-> GraceDelay])

RECURSIVE SumCounts(_)
SumCounts(sl) == IF sl = <<>> THEN 0 ELSE Head(sl).count + SumCounts(Tail(sl))

\* Mutant of Cached: an entry never counts as present.
CachedNever(ct, key) == FALSE

\* getContentTypeIds: if (this.contentTypes[key])
Cached(ct, key) == ct[key].made

\* getContentTypeIds: if (this.contentTypes[key].StringIds); an array, also
\* the empty one, is truthy.
Resolved(ct, key) == ct[key].ids # NoIds

\* Mutant of Stored: the callbacks are kept after they were called.
StoredKeeps(e, ids) == [e EXCEPT !.ids = ids]

\* the last reaction of the lookup: StringIds = ...; callbacks = []
Stored(e, ids) == [e EXCEPT !.ids = ids, !.callbacks = <<>>]

\* Web(site = 'default'): the key of the handle the lookup uses
WebKey(site) == IF site = NoSite THEN "default" ELSE site

\* Array.join(';')
RECURSIVE Join(_)
Join(segs) ==
    IF segs = <<>> THEN <<>>
    ELSE IF Len(segs) = 1 THEN segs[1]
    ELSE segs[1] \o <<Sep>> \o Join(Tail(segs))

\* String.split(';'): the segments between the separators; one (empty)
\* segment for a string without separator.
RECURSIVE SplitFrom(_, _)
SplitFrom(str, cur) ==
    IF str = <<>> THEN <<cur>>
    ELSE IF Head(str) = Sep THEN <<cur>> \o SplitFrom(Tail(str), <<>>)
    ELSE SplitFrom(Tail(str), Append(cur, Head(str)))

Split(str) == SplitFrom(str, <<>>)

\* split_path.reduce((score, _, idx) =>
\*     split_path.slice(0, idx + 1).join(';') === term.PathOfTerm ? idx : score, -1)
\* from the 0-based index idx on.
RECURSIVE ScoreFrom(_, _, _, _)
ScoreFrom(split, path, idx, score) ==
    IF idx >= Len(split) THEN score
    ELSE ScoreFrom(split, path, idx + 1,
                   IF Join(SubSeq(split, 1, idx + 1)) = path THEN idx ELSE score)

\* term.Id.replace(/^.*Guid\((.*)\)(.*)/g, '$1'): what stands between the last
\* 'Guid(' that has a ')' after it and the last ')'; the string itself
\* if there is no such pair.
GuidOf(raw) ==
    LET opens == {i \in 1..Len(raw) :
                     raw[i] = "Guid(" /\ \E j \in (i + 1)..Len(raw) : raw[j] = ")"}
    IN IF opens = {} THEN raw
       ELSE LET i == CHOOSE a \in opens : \A b \in opens : b <= a
                j == CHOOSE a \in (i + 1)..Len(raw) :
                         raw[a] = ")" /\ \A b \in (a + 1)..Len(raw) : raw[b] # ")"
            IN SubSeq(raw, i + 1, j - 1)

\* Mutant of Better: a later term with the same score replaces the earlier.
BetterOrEqual(score, highscore) == score >= highscore

\* getTaxonomyClosestParent: score > highscore
Better(score, highscore) == score > highscore

\* r.reduce(([highscore, highterm], term) => ..., [-1, undefined]) from the
\* t-th term on.
RECURSIVE ClosestFrom(_, _, _, _)
ClosestFrom(terms, split, t, high) ==
    IF t > Len(terms) THEN high
    ELSE LET score == ScoreFrom(split, terms[t].PathOfTerm, 0, -1)
         IN ClosestFrom(terms, split, t + 1,
                        IF Better(score, high.score)
                        THEN [score |-> score, term |-> t] ELSE high)

\* getTaxonomyClosestParent(termset_id, new_path) once the terms are there
ClosestParent(terms, path) == ClosestFrom(terms, Split(path), 1, NoMatch)

\* Mutant of Remaining: the matched segment is taken along.
RemainingFromMatch(split, highscore) ==
    IF highscore < 0 THEN split ELSE SubSeq(split, highscore + 1, Len(split))

\* buildTaxonomyPath: split_path.slice(highscore + 1)
Remaining(split, highscore) == SubSeq(split, highscore + 2, Len(split))

\* Mutant of ParentOf: the matched term is ignored.
ParentIsTermset(terms, m) == TermsetId

\* buildTaxonomyPath: (term && term.Id) || termset_id
ParentOf(terms, m) == IF m.term # 0 THEN terms[m.term].Id ELSE TermsetId

\* addTaxonomyPath: parentType: termset_id === parent_id ? 3 : 4
ParentType(parent) == IF parent = TermsetId THEN 3 ELSE 4

\* Mutant of DrainOrder: the queue is drained last in, first out.
DrainOrderReversed(q) == [i \in 1..Len(q) |-> q[Len(q) + 1 - i]]

\* queue.forEach(callback => callback()): the order the callbacks are called in.
DrainOrder(q) == q

\* Mutant of QueueCleared: the ready handler leaves the queue as it is.
QueueKept(q) == q

\* The ready handler of initialize: this.queue = []
QueueCleared(q) == <<>>

\* Mutant of Rethrown: the handler throws an error of its own.
RethrownOther(e) == "InitializationError"

\* The error the .catch handler of initialize rethrows.
Rethrown(e) == e

\* The status the .catch handler of initialize sets.
CatchStatus == "error"

\* constructor: this.batches = {}
InitBatches ==
    /\ batches = [k \in OrderKeys |-> NoSlot]
    /\ slots = <<>>
    /\ timers = <<>>
    /\ factories = {}

\* private contentTypes: created empty by the first getContentTypeIds call
InitTypes ==
    /\ contentTypes = [k \in TypeKeys |-> NoEntry]
    /\ callers = <<>>
    /\ lookups = [o \in 1..MaxOps |-> NoLookup]

\* No buildTaxonomyPath call was made.
\* The identifiers of document libraries, as strings.
LibIds == {"L1", "L2", "L3"}

\* A value a branch of Promise.all has not resolved with yet.
Unsettled == "unsettled"

\* An empty r.Id
Empty == ""

\* if (libraryId): a non-empty string
Truthy(id) == id # Empty

\* pageContext.list.id: a Guid object around the identifier
Guids == {[guid |-> id] : id \in LibIds}

\* Guid.toString()
GuidToString(g) == g.guid

\* Mutant of SameId: the answer does not depend on the identifiers.
SameAlways(defaultId, currentId) == TRUE

\* defaultId === currentId
SameId(defaultId, currentId) == defaultId = currentId

\* throw new Error('Could not find default documents library.')
NotFound == "Could not find default documents library."

\* Mutant of CheckedId: an empty identifier is returned like any other.
UncheckedId(id) == [ok |-> TRUE, err |-> NoErr]

\* getDefaultLibraryId: if (libraryId) return libraryId; else throw ...
CheckedId(id) ==
    IF Truthy(id) THEN [ok |-> TRUE, err |-> NoErr]
    ELSE [ok |-> FALSE, err |-> NotFound]

\* The library utilities that ask for the default library.
LibKinds == {"getDefaultLibraryId", "getDefaultLibrary", "isDefaultLibrary"}

\* A call of one of them: its kind, the state of the promise it returned,
\* what its branches resolved with, the error it rejected with, and the
\* number of requests for the default library it has issued.
NoLib == [kind |-> "isDefaultLibrary", st |-> "none", def |-> Unsettled,
          cur |-> Unsettled, page |-> [guid |-> Empty], res |-> FALSE,
          err |-> NoErr, reqs |-> 0]

InitLibs == libs = [k \in 1..MaxLibCalls |-> NoLib]

\* The fields the filter query of content type i can return: field j of it.
Field(i, j) == [ct |-> i, n |-> j]
\* undefined, as a field
NoField == Field(0, 0)

\* The results of one field query: up to MaxFields fields of content type i.
FieldLists(i) == {[j \in 1..k |-> Field(i, j)] : k \in 0..MaxFields}

\* Mutant of AllSettled: the values are kept in the order they arrived.
AllArrival(values, k, i, v) == [values EXCEPT ![k] = v]

\* Promise.all: the k-th value to arrive, v, of the i-th promise is stored
\* at index i of the result.
AllSettled(values, k, i, v) == [values EXCEPT ![i] = v]

\* r.find(test => test.length > 0): the index of the first non-empty result
\* among the n, 0 when there is none.
FindFirst(r, n) ==
    IF \A i \in 1..n : Len(r[i]) = 0 THEN 0
    ELSE CHOOSE i \in 1..n :
             /\ Len(r[i]) > 0
             /\ \A j \in 1..(i - 1) : Len(r[j]) = 0

\* (r.find(test => test.length > 0) || [])[0]
FirstField(r, n) ==
    IF FindFirst(r, n) = 0 THEN NoField ELSE r[FindFirst(r, n)][1]

\* No getFieldInfo call was made.  n is the length of StringIds, ans the
\* result the remote gave for each of them, order the order in which the
\* results arrived, values the array Promise.all collects, res the result.
InitFields ==
    fieldInfo = [st |-> "none", n |-> 0,
                 ans |-> [i \in 1..MaxTypes |-> <<>>],
                 order |-> <<>>,
                 values |-> [i \in 1..MaxTypes |-> <<>>],
                 res |-> NoField]

InitTax ==
    /\ taxPc = "idle"
    /\ taxReq = <<>>
    /\ taxTerms = <<>>
    /\ taxMatch = NoMatch
    /\ taxWrites = <<>>
    /\ taxRes = NoId
    /\ taxErr = NoErr

----------------------------------------------------------------------------
\* The path of the term-store endpoint
ProcessQuery == "/_vti_bin/client.svc/ProcessQuery"

\* `${x}` in a template literal: undefined becomes the text 'undefined'.
Interpolate(u) == IF u = Undefined THEN <<"undefined">> ELSE u

\* this.sites[site] || this.sites.current
SiteUrlOrCurrent(ss, s) ==
    IF s # NoSite /\ ss[s] # Undefined THEN ss[s] ELSE ss["current"]

\* getTermsetById: the url handed to this.post, evaluated when it is called
TermStoreUrl(ss, s) == Interpolate(SiteUrlOrCurrent(ss, s)) \o <<ProcessQuery>>

\* url.startsWith('https://')
StartsWithHttps(url) ==
    url # <<>> /\ \E ctx \in Contexts : url[1] = AbsoluteUrl(ctx)[1]

\* url.replace(/^\/+/g, '')
StripSlashes(url) == IF url # <<>> /\ url[1] = "/" THEN Tail(url) ELSE url

\* fetch: url.startsWith('https://') ? url : `${this.urls.base}/${...}`
FetchUrl(us, url) ==
    IF StartsWithHttps(url) THEN url
    ELSE Interpolate(us.base) \o <<"/">> \o StripSlashes(url)

\* A term-store query: the url passed to post, and the url the request was
\* sent to (undefined until it is sent).
NoRequest == [url |-> Undefined, sent |-> Undefined]

\* No getTermsetById call was made.
InitTerms == requests = [o \in 1..MaxOps |-> NoRequest]


Init ==
    /\ status = "not initialized"
    /\ queue = <<>>
    /\ context = NoContext
    /\ sites = [s \in SiteKeys |-> Undefined]
    /\ urls = [absolute |-> Undefined, base |-> Undefined]
    /\ webs = [s \in SiteKeys |-> NoHandle]
    /\ jobs = <<>>
    /\ inits = [c \in 1..MaxInits |-> NoInit]
    /\ ops = [o \in 1..MaxOps |-> NoOp]
    /\ nHandles = 0
    /\ built = [s \in SiteKeys |-> 0]
    /\ web = NoHandle
    /\ made = [c \in 1..MaxInits |-> NoHandle]
    /\ arg = [o \in 1..MaxOps |-> Undefined]
    /\ InitBatches
    /\ InitTypes
    /\ InitTax
    /\ InitLibs
    /\ InitTerms
    /\ InitFields

\* A site url a subclass registers under the key "alias" as a class property.
AliasUrl == <<"https://a", ".sharepoint.com", "/sites/alias">>

\* The single-handle class after construction; this.sites = {...this.sites}
\* keeps what the subclass registered.
InitSingle ==
    /\ status = "not initialized"
    /\ queue = <<>>
    /\ context = NoContext
    /\ sites \in {[s \in SiteKeys |-> IF s = "alias" THEN u ELSE Undefined] :
                     u \in {Undefined, AliasUrl}}
    /\ urls = [absolute |-> Undefined, base |-> Undefined]
    /\ webs = [s \in SiteKeys |-> NoHandle]
    /\ jobs = <<>>
    /\ inits = [c \in 1..MaxInits |-> NoInit]
    /\ ops = [o \in 1..MaxOps |-> NoOp]
    /\ nHandles = 0
    /\ built = [s \in SiteKeys |-> 0]
    /\ web = NoHandle
    /\ made = [c \in 1..MaxInits |-> NoHandle]
    /\ arg = [o \in 1..MaxOps |-> Undefined]
    /\ InitBatches
    /\ InitTypes
    /\ InitTax
    /\ InitLibs
    /\ InitTerms
    /\ InitFields

----------------------------------------------------------------------------
(* initialize(context) *)

\* k is the job of the first reaction: of this.Web() in the multi-site class,
\* of this.getWeb() in the single-handle class.
InitializeBody(ctx, k) ==
    /\ LET c == NInit + 1
           url == AbsoluteUrl(ctx)
       IN IF InitQueued(status)
          THEN \* this.queue.push(resolve)
               /\ queue' = Append(queue, [k |-> "init", id |-> c])
               /\ inits' = [inits EXCEPT ![c] = [NoInit EXCEPT !.pc = "queued",
                                                              !.queued = TRUE]]
               /\ UNCHANGED <<status, context, sites, urls, jobs>>
          ELSE /\ status' = "initializing"
               /\ context' = ctx
               /\ IF MatchEnds(url) # {}
                  THEN \* this.Web(): ready() resolves, its reaction is a job
                       /\ sites' = [sites EXCEPT !["default"] = url,
                                                 !["current"] = url,
                                                 !["base"] = MatchBase(url)]
                       /\ urls' = [absolute |-> url, base |-> MatchBase(url)]
                       /\ jobs' = Append(jobs, Job(k, c, 0, NoErr))
                       /\ inits' = [inits EXCEPT ![c] = [NoInit EXCEPT !.pc = k,
                                                                      !.ctx = ctx]]
                  ELSE \* match(...) is null: null[0] throws, the promise rejects
                       /\ sites' = [sites EXCEPT !["default"] = url,
                                                 !["current"] = url]
                       /\ urls' = urls
                       /\ jobs' = Append(jobs, Job("rej", c, 2, TypeError))
                       /\ inits' = [inits EXCEPT ![c] = [NoInit EXCEPT
                                        !.pc = "rej", !.thrown = TypeError,
                                        !.ctx = ctx]]
               /\ UNCHANGED queue
    /\ UNCHANGED <<webs, ops, nHandles, built, extVars>>

\* initialize(context) of the multi-site class
InitializeCall(ctx) == InitializeBody(ctx, "web")

\* initialize(context) in the gate specification
Initialize ==
    /\ NInit < MaxInits
    /\ \E ctx \in Contexts : InitializeCall(ctx)

\* initialize(context) in the site registry specification
InitializeSite ==
    /\ NInit < MaxSiteInits
    /\ \E ctx \in Contexts : InitializeCall(ctx)

\* initialize(context) of the single-handle class
InitializeSingle ==
    /\ NInit < MaxSiteInits
    /\ \E ctx \in Contexts : InitializeBody(ctx, "getweb")

\* The external completion of the promise startupRoutines() returned.
StartupSettles(c, e) ==
    /\ inits[c].pc = "startup"
    /\ IF e = NoErr
       THEN /\ inits' = [inits EXCEPT ![c].pc = "readyH"]
            /\ jobs' = Append(jobs, Job("readyH", c, 0, NoErr))
       ELSE /\ inits' = [inits EXCEPT ![c].pc = "rej", ![c].thrown = e]
            /\ jobs' = Append(jobs, Job("rej", c, 1, e))
    /\ UNCHANGED <<status, queue, context, sites, urls, webs, ops, nHandles, built,
                   extVars>>

StartupResolves == \E c \in 1..MaxInits : StartupSettles(c, NoErr)

StartupRejects == \E c \in 1..MaxInits, e \in StartupErrors : StartupSettles(c, e)

----------------------------------------------------------------------------
(* Gated utilities *)

\* ready(): resolve now (the continuation becomes a job) or push onto the queue.
CallOp(kind, s) ==
    /\ NOps < MaxOps
    /\ kind = "fetch" => s = NoSite
    /\ kind \in {"util", "getFieldInfo"} => s # NoSite
    /\ LET o == NOps + 1
           rec == [NoOp EXCEPT !.kind = kind, !.site = s, !.ninit = NInit,
                               !.stAt = status,
                               !.uncached = (s # NoSite /\ webs[s] = NoHandle),
                               !.unreg = (s # NoSite /\ sites[s] = Undefined)]
       IN /\ sites' = IF kind = "getFieldInfo" THEN RegisterSite(sites, s) ELSE sites
          /\ IF ReadyNow(status)
             THEN /\ ops' = [ops EXCEPT ![o] = [rec EXCEPT !.st = "released"]]
                  /\ jobs' = Append(jobs, Job("op", o, 0, NoErr))
                  /\ queue' = queue
             ELSE /\ ops' = [ops EXCEPT ![o] = [rec EXCEPT !.st = "queued"]]
                  /\ queue' = Append(queue, [k |-> "op", id |-> o])
                  /\ jobs' = jobs
    /\ UNCHANGED <<status, context, urls, webs, inits, nHandles, built, extVars>>

\* fetch / get / post: a raw transport request behind the gate
Fetch == CallOp("fetch", NoSite)

\* Web(site) behind getStorageEntity and the other handle utilities
Util == \E s \in CallSites : CallOp("util", s)

\* getWeb(site?)
GetWeb == \E s \in CallSites \cup {NoSite} : CallOp("getWeb", s)

\* getProperties() of the single-handle class
GetProperties == CallOp("getProperties", NoSite)

\* getFieldInfo({site, ...})
GetFieldInfo == \E s \in CallSites : CallOp("getFieldInfo", s)

\* setSite(site?) of the single-handle class: sites.current is set at once,
\* getWeb(this.sites.current) waits behind ready().
SetSiteCall(s) ==
    /\ NOps < MaxOps
    /\ LET o == NOps + 1
           cur == SetSiteUrl(sites, s)
           rec == [NoOp EXCEPT !.kind = "setSite", !.site = s, !.ninit = NInit,
                               !.stAt = status,
                               !.unreg = (s = NoSite \/ sites[s] = Undefined)]
       IN /\ sites' = [sites EXCEPT !["current"] = cur]
          /\ arg' = [arg EXCEPT ![o] = cur]
          /\ IF ReadyNow(status)
             THEN /\ ops' = [ops EXCEPT ![o] = [rec EXCEPT !.st = "released"]]
                  /\ jobs' = Append(jobs, Job("op", o, 0, NoErr))
                  /\ queue' = queue
             ELSE /\ ops' = [ops EXCEPT ![o] = [rec EXCEPT !.st = "queued"]]
                  /\ queue' = Append(queue, [k |-> "op", id |-> o])
                  /\ jobs' = jobs
    /\ UNCHANGED <<status, context, urls, webs, inits, nHandles, built, web, made,
                   notSingle>>

SetSite == \E s \in CallSites \cup {NoSite} : SetSiteCall(s)

\* getTermsetById(id, site?): the url is built at once, as the argument of
\* this.post; fetch waits behind ready().
GetTermsetByIdCall(s) ==
    /\ NOps < MaxOps
    /\ LET o == NOps + 1
           rec == [NoOp EXCEPT !.kind = "getTermsetById", !.site = s,
                               !.ninit = NInit, !.stAt = status,
                               !.unreg = (s = NoSite \/ sites[s] = Undefined)]
       IN /\ requests' = [requests EXCEPT ![o].url = TermStoreUrl(sites, s)]
          /\ IF ReadyNow(status)
             THEN /\ ops' = [ops EXCEPT ![o] = [rec EXCEPT !.st = "released"]]
                  /\ jobs' = Append(jobs, Job("op", o, 0, NoErr))
                  /\ queue' = queue
             ELSE /\ ops' = [ops EXCEPT ![o] = [rec EXCEPT !.st = "queued"]]
                  /\ queue' = Append(queue, [k |-> "op", id |-> o])
                  /\ jobs' = jobs
    /\ UNCHANGED <<status, context, sites, urls, webs, inits, nHandles, built,
                   notTerms>>

GetTermsetById == \E s \in CallSites \cup {NoSite} : GetTermsetByIdCall(s)

\* A caller: what getContentTypeIds returned to it.  res is the list its
\* promise resolved with (NoIds while pending); err is the error it rejected
\* with, which the executor, taking no reject function, never sets.
\* getContentTypeIds({ site, list }) as getFieldInfo, its only caller, calls
\* it after registering an unknown site.  The executor runs at once; only the
\* lookup waits behind ready().  (The handle and the batch factory getFieldInfo
\* asks for are GetFieldInfo of SpecSites and AutoBatch of SpecBatch.)
TypeCall(a) ==
    /\ Len(callers) < MaxTypeCalls
    /\ LET key == KeyOf(a[1], a[2])
           n == Len(callers) + 1
           o == NOps + 1
           me == [key |-> key, scope |-> a, ninit |-> NInit,
                  at |-> IF ~Cached(contentTypes, key) THEN "absent"
                         ELSE IF Resolved(contentTypes, key) THEN "resolved"
                         ELSE "pending",
                  res |-> NoIds, err |-> NoErr]
       IN /\ sites' = RegisterSite(sites, a[1])
          /\ IF Cached(contentTypes, key)
             THEN /\ IF Resolved(contentTypes, key)
                     THEN \* resolve(this.contentTypes[key].StringIds)
                          /\ callers' = Append(callers,
                                 [me EXCEPT !.res = contentTypes[key].ids])
                          /\ contentTypes' = contentTypes
                     ELSE \* this.contentTypes[key].callbacks.push(resolve)
                          /\ callers' = Append(callers, me)
                          /\ contentTypes' = [contentTypes EXCEPT
                                                 ![key].callbacks = Append(@, n)]
                  /\ UNCHANGED <<lookups, ops, jobs, queue>>
             ELSE \* a new entry, and the lookup: Web(site) or getListByTitle
                  /\ NOps < MaxOps
                  /\ callers' = Append(callers, me)
                  /\ contentTypes' = [contentTypes EXCEPT ![key] =
                         [made |-> TRUE, ids |-> NoIds, callbacks |-> <<n>>]]
                  /\ lookups' = [lookups EXCEPT ![o] =
                         [NoLookup EXCEPT !.st = "started", !.key = key,
                                          !.scope = a]]
                  /\ LET rec == [NoOp EXCEPT !.kind = "lookup",
                                    !.site = WebKey(a[1]), !.ninit = NInit,
                                    !.stAt = status]
                     IN IF ReadyNow(status)
                        THEN /\ ops' = [ops EXCEPT ![o] = [rec EXCEPT !.st = "released"]]
                             /\ jobs' = Append(jobs, Job("op", o, 0, NoErr))
                             /\ queue' = queue
                        ELSE /\ ops' = [ops EXCEPT ![o] = [rec EXCEPT !.st = "queued"]]
                             /\ queue' = Append(queue, [k |-> "op", id |-> o])
                             /\ jobs' = jobs
    /\ UNCHANGED <<status, context, urls, webs, inits, nHandles, built, notTypes>>

GetContentTypeIds == \E a \in TypeArgs : TypeCall(a)

\* The remote call contentTypes.select('StringId').get() settles.
LookupSettles(o, r, e) ==
    /\ lookups[o].st = "sent"
    /\ IF e = NoErr
       THEN /\ lookups' = [lookups EXCEPT ![o].st = "settled", ![o].val = r]
            /\ jobs' = Append(jobs, Job("ctmap", o, 0, NoErr))
       ELSE \* the rejection passes the two .then reactions; nothing handles it
            /\ lookups' = [lookups EXCEPT ![o].st = "failed", ![o].err = e]
            /\ jobs' = jobs
    /\ UNCHANGED <<status, queue, context, sites, urls, webs, inits, ops, nHandles,
                   built, contentTypes, callers, notTypes>>

LookupResolves == \E o \in 1..MaxOps, r \in IdLists : LookupSettles(o, r, NoErr)
LookupRejects == \E o \in 1..MaxOps, e \in LookupErrors : LookupSettles(o, NoIds, e)

\* initialize(context) in the content-type cache specification
InitializeTypes ==
    /\ NInit < MaxTypeInits
    /\ \E ctx \in TypeContexts : InitializeCall(ctx)

----------------------------------------------------------------------------
(* Promise jobs *)

\* initialize: this.Web() reaction, webs.default = webs.default || Web(sites.default)
JobWeb(c) ==
    /\ webs' = [webs EXCEPT !["default"] =
                    WebMemo(webs, "default", nHandles, SiteUrl(sites, "default"))]
    /\ nHandles' = IF webs'["default"] = webs["default"] THEN nHandles ELSE nHandles + 1
    /\ built' = IF webs'["default"] = webs["default"] THEN built
                ELSE [built EXCEPT !["default"] = @ + 1]
    /\ inits' = [inits EXCEPT ![c].pc = "resolve"]
    /\ jobs' = Append(Tail(jobs), Job("res", c, 0, NoErr))
    /\ UNCHANGED <<status, queue, context, sites, urls, ops>>

\* Mutant of JobResolve: the chain goes on to the ready handler without
\* calling startupRoutines.
JobResolveSkipsStartup(c) ==
    /\ inits' = [inits EXCEPT ![c].pc = "readyH"]
    /\ jobs' = Append(Tail(jobs), Job("readyH", c, 0, NoErr))
    /\ UNCHANGED <<status, queue, context, sites, urls, webs, ops, nHandles, built>>

\* initialize: .then(() => resolve()) fulfils the outer promise
JobResolve(c) ==
    /\ inits' = [inits EXCEPT ![c].pc = "startupCall"]
    /\ jobs' = Append(Tail(jobs), Job("startupCall", c, 0, NoErr))
    /\ UNCHANGED <<status, queue, context, sites, urls, webs, ops, nHandles, built>>

\* initialize: .then(() => this.startupRoutines())
JobStartupCall(c) ==
    /\ inits' = [inits EXCEPT ![c].pc = "startup"]
    /\ jobs' = Tail(jobs)
    /\ UNCHANGED <<status, queue, context, sites, urls, webs, ops, nHandles, built>>

\* The jobs calling the queued resolve functions creates, in call order.
RECURSIVE ReleaseJobs(_)
ReleaseJobs(q) ==
    IF q = <<>> THEN <<>>
    ELSE <<Job(IF Head(q).k = "op" THEN "op" ELSE "startupCall",
               Head(q).id, 0, NoErr)>> \o ReleaseJobs(Tail(q))

QueuedOps(q) == {q[i].id : i \in {j \in 1..Len(q) : q[j].k = "op"}}
QueuedInits(q) == {q[i].id : i \in {j \in 1..Len(q) : q[j].k = "init"}}

\* initialize: .then(r => { status = 'ready'; queue.forEach(cb => cb()); queue = [] })
JobReady(c) ==
    /\ status' = "ready"
    /\ jobs' = Tail(jobs) \o ReleaseJobs(DrainOrder(queue))
    /\ ops' = [o \in 1..MaxOps |->
                 IF o \in QueuedOps(queue) THEN [ops[o] EXCEPT !.st = "released"]
                 ELSE ops[o]]
    /\ inits' = [d \in 1..MaxInits |->
                 IF d = c THEN [inits[d] EXCEPT !.pc = "done"]
                 ELSE IF d \in QueuedInits(queue)
                      THEN [inits[d] EXCEPT !.pc = "startupCall"]
                      ELSE inits[d]]
    /\ queue' = QueueCleared(queue)
    /\ UNCHANGED <<context, sites, urls, webs, nHandles, built>>

\* A rejection passing a .then without a rejection handler.
JobReject(c, n, e) ==
    /\ jobs' = Append(Tail(jobs),
                      IF n > 1 THEN Job("rej", c, n - 1, e) ELSE Job("catch", c, 0, e))
    /\ UNCHANGED <<status, queue, context, sites, urls, webs, inits, ops,
                   nHandles, built>>

\* initialize: .catch(error => { this.status = 'error'; throw error; })
JobCatch(c, e) ==
    /\ status' = CatchStatus
    /\ inits' = [inits EXCEPT ![c].pc = "failed", ![c].err = Rethrown(e)]
    /\ jobs' = Tail(jobs)
    /\ UNCHANGED <<queue, context, sites, urls, webs, ops, nHandles, built>>

\* The continuation of ready() of a gated utility.
JobOp(o) ==
    LET kind == ops[o].kind
        s == ops[o].site
    IN /\ CASE kind = "fetch" ->
                 \* this.context.spHttpClient[method](url, config, options)
                 /\ ops' = [ops EXCEPT ![o].st = "done", ![o].runs = @ + 1]
                 /\ jobs' = Tail(jobs)
                 /\ UNCHANGED <<webs, nHandles, built>>
            [] kind = "getWeb" ->
                 /\ ops' = [ops EXCEPT ![o].st = "done", ![o].runs = @ + 1,
                               ![o].h = NewWeb(nHandles, GetWebUrl(sites, context, s))]
                 /\ nHandles' = nHandles + 1
                 /\ jobs' = Tail(jobs)
                 /\ UNCHANGED <<webs, built>>
            [] kind = "getProperties" ->
                 \* this.web.select('AllProperties')...: a TypeError while
                 \* this.web is undefined
                 /\ ops' = [ops EXCEPT ![o].runs = @ + 1, ![o].h = web,
                               ![o].st = IF web = NoHandle THEN "failed"
                                         ELSE "done"]
                 /\ jobs' = Tail(jobs)
                 /\ UNCHANGED <<webs, nHandles, built>>
            [] OTHER ->
                 \* Web(site); util then requests through the handle
                 /\ webs' = [webs EXCEPT ![s] = WebMemo(webs, s, nHandles, SiteUrl(sites, s))]
                 /\ nHandles' = IF webs'[s] = webs[s] THEN nHandles ELSE nHandles + 1
                 /\ built' = IF webs'[s] = webs[s] THEN built
                             ELSE [built EXCEPT ![s] = @ + 1]
                 /\ ops' = [ops EXCEPT ![o].runs = @ + 1, ![o].h = webs'[s],
                               ![o].st = IF kind = "util" THEN "ran" ELSE "done"]
                 /\ jobs' = IF kind = "util"
                            THEN Append(Tail(jobs), Job("req", o, 0, NoErr))
                            ELSE Tail(jobs)
       /\ UNCHANGED <<status, queue, context, sites, urls, inits>>

\* util: .then(web => web.getStorageEntity(entity)), a request through the handle
JobRequest(o) ==
    /\ ops' = [ops EXCEPT ![o].st = "done"]
    /\ jobs' = Tail(jobs)
    /\ UNCHANGED <<status, queue, context, sites, urls, webs, inits, nHandles, built>>

\* single-handle initialize: the reaction of getWeb(), Web(absoluteUrl)
JobGetWeb(c) ==
    /\ made' = [made EXCEPT ![c] = NewWeb(nHandles, AbsoluteUrl(context))]
    /\ nHandles' = nHandles + 1
    /\ inits' = [inits EXCEPT ![c].pc = "assign"]
    /\ jobs' = Append(Tail(jobs), Job("assign", c, 0, NoErr))
    /\ UNCHANGED <<status, queue, context, sites, urls, webs, ops, built, web, arg,
                   notSingle>>

\* single-handle initialize: .then(web => (this.web = web))
JobAssign(c) ==
    /\ web' = made[c]
    /\ inits' = [inits EXCEPT ![c].pc = "resolve"]
    /\ jobs' = Append(Tail(jobs), Job("res", c, 0, NoErr))
    /\ UNCHANGED <<status, queue, context, sites, urls, webs, ops, nHandles, built,
                   made, arg, notSingle>>

\* setSite: the reaction of getWeb(u), site ? Web(this.sites[site])
\*                                          : Web(context...absoluteUrl)
JobSetSite(o) ==
    /\ IF arg[o] = Undefined /\ context = NoContext
       THEN \* reading pageContext of undefined throws
            /\ ops' = [ops EXCEPT ![o].st = "failed", ![o].runs = @ + 1]
            /\ jobs' = Tail(jobs)
            /\ UNCHANGED nHandles
       ELSE /\ ops' = [ops EXCEPT ![o].st = "ran", ![o].runs = @ + 1,
                          ![o].h = NewWeb(nHandles,
                                          IF arg[o] # Undefined
                                          THEN SitesAt(sites, arg[o])
                                          ELSE AbsoluteUrl(context))]
            /\ nHandles' = nHandles + 1
            /\ jobs' = Append(Tail(jobs), Job("setWeb", o, 0, NoErr))
    /\ UNCHANGED <<status, queue, context, sites, urls, webs, inits, built,
                   singleVars, notSingle>>

\* setSite: .then(web => (this.web = web))
JobSetWeb(o) ==
    /\ web' = ops[o].h
    /\ ops' = [ops EXCEPT ![o].st = "done"]
    /\ jobs' = Tail(jobs)
    /\ UNCHANGED <<status, queue, context, sites, urls, webs, inits, nHandles, built,
                   made, arg, notSingle>>

\* getTermsetById: the reaction of ready() in fetch,
\* this.context.spHttpClient.post(url or `${this.urls.base}/${url}`, ...)
JobPost(o) ==
    /\ IF context = NoContext
       THEN /\ ops' = [ops EXCEPT ![o].st = "failed", ![o].runs = @ + 1]
            /\ requests' = requests
       ELSE /\ ops' = [ops EXCEPT ![o].st = "done", ![o].runs = @ + 1]
            /\ requests' = [requests EXCEPT
                                ![o].sent = FetchUrl(urls, requests[o].url)]
    /\ jobs' = Tail(jobs)
    /\ UNCHANGED <<status, queue, context, sites, urls, webs, inits, nHandles,
                   built, notTerms>>

\* lookup: the reaction of ready() in Web(site), the handle of the site
JobLookup(o) ==
    LET s == ops[o].site
    IN /\ webs' = [webs EXCEPT ![s] = WebMemo(webs, s, nHandles, SiteUrl(sites, s))]
       /\ nHandles' = IF webs'[s] = webs[s] THEN nHandles ELSE nHandles + 1
       /\ built' = IF webs'[s] = webs[s] THEN built ELSE [built EXCEPT ![s] = @ + 1]
       /\ ops' = [ops EXCEPT ![o].runs = @ + 1, ![o].h = webs'[s], ![o].st = "ran"]
       /\ jobs' = Append(Tail(jobs), Job("ctreq", o, 0, NoErr))
       /\ UNCHANGED <<status, queue, context, sites, urls, inits, typeVars, notTypes>>

\* lookup: .then(contentTypes => contentTypes.select('StringId').get())
JobLookupRequest(o) ==
    /\ lookups' = [lookups EXCEPT ![o].st = "sent"]
    /\ ops' = [ops EXCEPT ![o].st = "done"]
    /\ jobs' = Tail(jobs)
    /\ UNCHANGED <<status, queue, context, sites, urls, webs, inits, nHandles, built,
                   contentTypes, callers, notTypes>>

\* lookup: .then(contentTypes => contentTypes.map(({ StringId }) => StringId))
JobLookupMap(o) ==
    /\ jobs' = Append(Tail(jobs), Job("ctstore", o, 0, NoErr))
    /\ UNCHANGED <<status, queue, context, sites, urls, webs, inits, ops, nHandles,
                   built, typeVars, notTypes>>

\* lookup: .then(StringIds => { store; callbacks.forEach(cb => cb(StringIds));
\*                              callbacks = [] })
JobLookupStore(o) ==
    LET key == lookups[o].key
        ids == lookups[o].val
        cbs == contentTypes[key].callbacks
    IN /\ contentTypes' = [contentTypes EXCEPT ![key] = Stored(@, ids)]
       /\ callers' = [n \in 1..Len(callers) |->
                        IF \E i \in 1..Len(cbs) : cbs[i] = n
                        THEN [callers[n] EXCEPT !.res = ids] ELSE callers[n]]
       /\ lookups' = [lookups EXCEPT ![o].st = "stored"]
       /\ jobs' = Tail(jobs)
       /\ UNCHANGED <<status, queue, context, sites, urls, webs, inits, ops,
                      nHandles, built, notTypes>>

\* The jobs of the gate and of the multi-site class
GateJob(j) ==
    CASE j.k = "web" -> JobWeb(j.id)
      [] j.k = "res" -> JobResolve(j.id)
      [] j.k = "startupCall" -> JobStartupCall(j.id)
      [] j.k = "readyH" -> JobReady(j.id)
      [] j.k = "rej" -> JobReject(j.id, j.n, j.e)
      [] j.k = "catch" -> JobCatch(j.id, j.e)
      [] j.k = "op" -> JobOp(j.id)
      [] j.k = "req" -> JobRequest(j.id)

RunJob ==
    /\ jobs # <<>>
    /\ LET j == Head(jobs)
       IN CASE j.k = "getweb" -> JobGetWeb(j.id)
            [] j.k = "assign" -> JobAssign(j.id)
            [] j.k = "setWeb" -> JobSetWeb(j.id)
            [] j.k = "op" /\ ops[j.id].kind = "setSite" -> JobSetSite(j.id)
            [] j.k = "op" /\ ops[j.id].kind = "lookup" -> JobLookup(j.id)
            [] j.k = "op" /\ ops[j.id].kind = "getTermsetById" -> JobPost(j.id)
            [] j.k = "ctreq" -> JobLookupRequest(j.id)
            [] j.k = "ctmap" -> JobLookupMap(j.id)
            [] j.k = "ctstore" -> JobLookupStore(j.id)
            [] OTHER -> GateJob(j) /\ UNCHANGED extVars

----------------------------------------------------------------------------
Next ==
    \/ Initialize
    \/ StartupResolves
    \/ StartupRejects
    \/ Fetch
    \/ RunJob

Spec == Init /\ [][Next]_vars

NextSites ==
    \/ InitializeSite
    \/ StartupResolves
    \/ StartupRejects
    \/ Util
    \/ GetWeb
    \/ GetFieldInfo
    \/ RunJob

SpecSites == Init /\ [][NextSites]_vars

\* The single-handle class: the gate, setSite and this.web
NextSingle ==
    \/ InitializeSingle
    \/ StartupResolves
    \/ StartupRejects
    \/ SetSite
    \/ GetProperties
    \/ RunJob

SpecSingle == InitSingle /\ [][NextSingle]_vars

\* The term-store query behind the gate
NextTerms ==
    \/ InitializeSite
    \/ StartupResolves
    \/ StartupRejects
    \/ GetTermsetById
    \/ RunJob

SpecTerms == Init /\ [][NextTerms]_vars

----------------------------------------------------------------------------
(* The batch multiplexer: autoBatch, its factories and its timers *)

\* The multi-site class after initialize("ctxA") completed: status 'ready',
\* the default handle built, nothing queued and no job pending.
InitReady ==
    LET url == AbsoluteUrl("ctxA")
    IN /\ status = "ready"
       /\ queue = <<>>
       /\ context = "ctxA"
       /\ sites = [s \in SiteKeys |->
                     CASE s \in {"default", "current"} -> url
                       [] s = "base" -> MatchBase(url)
                       [] OTHER -> Undefined]
       /\ urls = [absolute |-> url, base |-> MatchBase(url)]
       /\ webs = [s \in SiteKeys |->
                    IF s = "default" THEN NewWeb(0, url) ELSE NoHandle]
       /\ jobs = <<>>
       /\ inits = [c \in 1..MaxInits |->
                     IF c = 1 THEN [NoInit EXCEPT !.pc = "done", !.ctx = "ctxA"]
                     ELSE NoInit]
       /\ ops = [o \in 1..MaxOps |-> NoOp]
       /\ nHandles = 1
       /\ built = [s \in SiteKeys |-> IF s = "default" THEN 1 ELSE 0]
       /\ web = NoHandle
       /\ made = [c \in 1..MaxInits |-> NoHandle]
       /\ arg = [o \in 1..MaxOps |-> Undefined]
       /\ InitBatches
       /\ InitTypes
       /\ InitTax
       /\ InitLibs
       /\ InitTerms
       /\ InitFields

\* A slot: the fields of { batch, count } and what is recorded about it.
\*   wfired  its own window timer has fired
\*   exec    the number of batch.execute() calls on its batch
\*   inWin   the factory calls for its key made while its own window was open
\*   fresh   at its creation no other slot of its key had its window timer pending
\*   after   the slot the cap retired in the call that created it (0: none)
\*   closed  its window timer was the closed-th window timer to fire (0: not yet)
\*   inTable it was the entry of its key when its batch was executed
NewSlot(key, fr, af) ==
    [key |-> key, count |-> 0, wfired |-> FALSE, exec |-> 0, inWin |-> 0,
     fresh |-> fr, after |-> af, closed |-> 0, inTable |-> FALSE]

WindowOpen(sl, s) == ~sl[s].wfired

\* autoBatch(timeout, site) in status 'ready' with no job pending: ready() and
\* Web(site) resolve in turn, and the caller receives the factory.
AutoBatch(key) ==
    /\ status = "ready" /\ jobs = <<>>
    /\ key \notin factories
    /\ LET s == key[2]
       IN /\ webs' = [webs EXCEPT ![s] = WebMemo(webs, s, nHandles, SiteUrl(sites, s))]
          /\ nHandles' = IF webs'[s] = webs[s] THEN nHandles ELSE nHandles + 1
          /\ built' = IF webs'[s] = webs[s] THEN built
                      ELSE [built EXCEPT ![s] = @ + 1]
    /\ factories' = factories \cup {key}
    /\ UNCHANGED <<status, queue, context, sites, urls, jobs, inits, ops,
                   notBatch, batches, slots, timers>>

\* One call of the factory autoBatch returned for key, the max-th call of a
\* factory at most.
Factory(key, max) ==
    /\ key \in factories
    /\ SumCounts(slots) < max
    /\ LET b1 == AfterCapCheck(batches, slots, key)
           n == Len(slots) + 1
           fr == \A s \in 1..Len(slots) :
                     slots[s].key = key => ~WindowOpen(slots, s)
           \* if (!this.batches[key]) { create the slot, set its window timer }
           sl1 == IF b1 = NoSlot
                  THEN Append(slots, NewSlot(key, fr, batches[key]))
                  ELSE slots
           cur == IF b1 = NoSlot THEN n ELSE b1
       IN /\ b1 = NoSlot => Len(slots) < MaxSlots
          /\ batches' = [batches EXCEPT ![key] = cur]
          /\ timers' = IF b1 = NoSlot
                       THEN Append(timers, [kind |-> "window", slot |-> n,
                                            delay |-> key[1]])
                       ELSE timers
          \* this.batches[key].count += 1; return this.batches[key].batch
          /\ slots' = [s \in 1..Len(sl1) |->
                         [sl1[s] EXCEPT
                            !.count = IF s = cur THEN Counted(@) ELSE @,
                            !.inWin = IF sl1[s].key = key /\ WindowOpen(sl1, s)
                                      THEN @ + 1 ELSE @]]
    /\ UNCHANGED <<status, queue, context, sites, urls, webs, jobs, inits, ops,
                   nHandles, built, notBatch, factories>>

\* A window timer fires: this.batches[key] = undefined;
\*                       setTimeout(() => batch.execute(), 5)
WindowTimerFires(i) ==
    /\ timers[i].kind = "window"
    /\ Due(timers, i)
    /\ LET s == timers[i].slot
       IN /\ batches' = TimerClears(batches, slots[s].key)
          /\ slots' = [slots EXCEPT
                         ![s].wfired = TRUE,
                         ![s].closed = 1 + Cardinality({x \in 1..Len(slots) :
                                                           slots[x].wfired})]
          /\ timers' = ArmGrace(timers, i, s)
    /\ UNCHANGED <<status, queue, context, sites, urls, webs, jobs, inits, ops,
                   nHandles, built, notBatch, factories>>

\* The second timer fires: batch.execute()
GraceTimerFires(i) ==
    /\ timers[i].kind = "grace"
    /\ Due(timers, i)
    /\ slots' = [slots EXCEPT
                   ![timers[i].slot].exec = @ + 1,
                   ![timers[i].slot].inTable =
                       batches[slots[timers[i].slot].key] = timers[i].slot]
    /\ timers' = Without(timers, i)
    /\ UNCHANGED <<status, queue, context, sites, urls, webs, jobs, inits, ops,
                   nHandles, built, notBatch, batches, factories>>

FactoryCall(key) == Factory(key, MaxBatchCalls)

GetFactory == \E key \in BatchKeys : AutoBatch(key)
GetBatch == \E key \in BatchKeys : FactoryCall(key)
WindowCloses == \E i \in 1..Len(timers) : WindowTimerFires(i)
BatchExecutes == \E i \in 1..Len(timers) : GraceTimerFires(i)

NextBatch ==
    \/ GetFactory
    \/ GetBatch
    \/ WindowCloses
    \/ BatchExecutes

SpecBatch == InitReady /\ [][NextBatch]_vars

\* The multiplexer with two factories of different timeouts and few calls.
GetFactoryOf == \E key \in OrderKeys : AutoBatch(key)
GetBatchOf == \E key \in OrderKeys : Factory(key, MaxOrderCalls)

NextOrder ==
    \/ GetFactoryOf
    \/ GetBatchOf
    \/ WindowCloses
    \/ BatchExecutes

SpecOrder == InitReady /\ [][NextOrder]_vars

----------------------------------------------------------------------------
(* The content-type cache *)

NextTypes ==
    \/ InitializeTypes
    \/ StartupResolves
    \/ GetContentTypeIds
    \/ LookupResolves
    \/ LookupRejects
    \/ RunJob

\* The cache of an initialized fetcher, re-initialized while it is used.
SpecTypes == InitReady /\ [][NextTypes]_vars

----------------------------------------------------------------------------
(* The taxonomy path builder: buildTaxonomyPath on an initialized fetcher.
   With status 'ready' and no initialize call, every ready() on the way
   resolves at once; the steps are the remote calls and their responses. *)

\* The paths of 1..depth names joined by ';'
PathsTo(depth) ==
    {Join(segs) : segs \in UNION {[1..n -> {<<x>> : x \in Names}] : n \in 1..depth}}

\* The paths asked for, and the paths of the terms of the term store.
TaxPaths == PathsTo(MaxSegs)
TermPaths == PathsTo(MaxDepth)

\* The term collections the term store may return: up to MaxTerms terms in
\* any order, with any paths.
TermLists == UNION {[1..n -> TermPaths] : n \in 0..MaxTerms}

\* getTermsetById: _Child_Items_ as sent, and after term.Id is rewritten
SentTerms(paths) ==
    [i \in 1..Len(paths) |-> [Id |-> RawId(TermId(i)), PathOfTerm |-> paths[i]]]
ReceivedTerms(sent) ==
    [i \in 1..Len(sent) |-> [sent[i] EXCEPT !.Id = GuidOf(@)]]

\* The errors a remote call may fail with.
TaxErrors == {"E500", "E403"}

\* The body of a CreateTaxonomyItem request, the Id of the response (NoId
\* until it arrived) and the error of the request (NoErr unless it failed).
Write(name, parent) ==
    [newName |-> name, parentId |-> parent, parentType |-> ParentType(parent),
     ret |-> NoId, err |-> NoErr]

\* Mutant of Responded: the next write goes out, the identifier is dropped.
RespondedLost(writes, n, id) == writes

\* .then(r => r.json()): the response of write n carries r.d.Content.Id
Responded(writes, n, id) == [writes EXCEPT ![n].ret = id]

\* How a remote call fails: spHttpClient rejects (no connection), or it
\* resolves with the response of a request the server refused: the chain
\* does not look at the response status.
Failures == {"rejected", "refused"}

\* The error thrown where the chain reads the body of a refused request:
\* r.d.Content.Id, and r.filter(...)[0]._Child_Items_ in getTermsetById.
ReadError == "TypeError"

\* No .catch in the chain: the promise buildTaxonomyPath returned rejects
\* with the error spHttpClient rejected with, or with the error thrown while
\* the body of the refused request is read.
Rejected(e, how) == IF how = "rejected" THEN e ELSE ReadError

\* buildTaxonomyPath(sspid, termset_id, new_path): getTermsetById is posted
BuildTaxonomyPath(path) ==
    /\ taxPc = "idle"
    /\ status = "ready"
    /\ taxReq' = path
    /\ taxPc' = "terms"
    /\ UNCHANGED <<status, queue, context, sites, urls, webs, jobs, inits, ops,
                   nHandles, built, taxTerms, taxMatch, taxWrites, taxRes, taxErr,
                   notTax>>

\* The terms arrive: getTaxonomyClosestParent reduces them, then
\* addTaxonomyPath(sspid, termset_id, parent, ...split_path.slice(highscore + 1))
\* posts the first write, or resolves with the parent if nothing is left.
TermsArrive(paths) ==
    /\ taxPc = "terms"
    /\ LET terms == ReceivedTerms(SentTerms(paths))
           m == ClosestParent(terms, taxReq)
           path == Remaining(Split(taxReq), m.score)
           parent == ParentOf(terms, m)
       IN /\ taxTerms' = terms
          /\ taxMatch' = m
          /\ IF path # <<>>
             THEN /\ taxWrites' = <<Write(path[1], parent)>>
                  /\ taxPc' = "writing"
                  /\ taxRes' = taxRes
             ELSE /\ taxWrites' = taxWrites
                  /\ taxPc' = "done"
                  /\ taxRes' = parent
    /\ UNCHANGED <<status, queue, context, sites, urls, webs, jobs, inits, ops,
                   nHandles, built, taxReq, taxErr, notTax>>

\* The response of the pending write arrives: addTaxonomyPath(sspid,
\* termset_id, r.d.Content.Id, ...path.slice(1))
WriteResponds ==
    /\ taxPc = "writing"
    /\ LET n == Len(taxWrites)
           id == CreatedId(n)
           path == Remaining(Split(taxReq), taxMatch.score)
           done == Responded(taxWrites, n, id)
       IN IF n < Len(path)
          THEN /\ taxWrites' = Append(done, Write(path[n + 1], id))
               /\ UNCHANGED <<taxPc, taxRes>>
          ELSE /\ taxWrites' = done
               /\ taxPc' = "done"
               /\ taxRes' = id
    /\ UNCHANGED <<status, queue, context, sites, urls, webs, jobs, inits, ops,
                   nHandles, built, taxReq, taxTerms, taxMatch, taxErr, notTax>>

\* A remote call of the chain fails: the promise buildTaxonomyPath returned
\* rejects, nothing further is posted.
RemoteCallFails(e, how) ==
    /\ taxPc \in {"terms", "writing"}
    /\ taxPc' = "failed"
    /\ taxErr' = Rejected(e, how)
    /\ taxWrites' = IF taxPc = "writing"
                    THEN [taxWrites EXCEPT ![Len(taxWrites)].err = e]
                    ELSE taxWrites
    /\ UNCHANGED <<status, queue, context, sites, urls, webs, jobs, inits, ops,
                   nHandles, built, taxReq, taxTerms, taxMatch, taxRes, notTax>>

BuildPath == \E path \in TaxPaths : BuildTaxonomyPath(path)
RemoteFails == \E e \in TaxErrors, how \in Failures : RemoteCallFails(e, how)
TermsReturned == taxPc = "terms" /\ \E paths \in TermLists : TermsArrive(paths)

NextTax ==
    \/ BuildPath
    \/ TermsReturned
    \/ WriteResponds
    \/ RemoteFails

SpecTax == InitReady /\ [][NextTax]_vars

----------------------------------------------------------------------------
(* The library utilities on an initialized fetcher.  isDefaultLibrary() is
   Promise.all of getDefaultLibraryId() and getCurrentLibraryId(), then the
   comparison; getDefaultLibrary() is getDefaultLibraryId(), then
   getListById. *)

\* Call k, of the given kind: getDefaultLibraryId posts its request.
DefaultLibraryCall(k, kind) ==
    /\ status = "ready"
    /\ libs[k].st = "none"
    /\ \A j \in 1..(k - 1) : libs[j].st # "none"
    /\ libs' = [libs EXCEPT ![k].kind = kind, ![k].st = "pending",
                            ![k].reqs = @ + 1]
    /\ UNCHANGED <<gateVars, notLibs>>

IsDefaultLibrary(k) == DefaultLibraryCall(k, "isDefaultLibrary")
GetDefaultLibrary(k) == DefaultLibraryCall(k, "getDefaultLibrary")
GetDefaultLibraryId(k) == DefaultLibraryCall(k, "getDefaultLibraryId")

\* getDefaultLibraryId: web.defaultDocumentLibrary.select('Id').get() is
\* answered with r.Id = id; an empty id throws, and the rejection passes
\* through getDefaultLibrary and through Promise.all of isDefaultLibrary.
DefaultIdArrives(k, id) ==
    /\ libs[k].st = "pending"
    /\ libs[k].def = Unsettled
    /\ libs' = IF CheckedId(id).ok
               THEN [libs EXCEPT ![k].def = id]
               ELSE [libs EXCEPT ![k].def = id, ![k].st = "rejected",
                                 ![k].err = CheckedId(id).err]
    /\ UNCHANGED <<gateVars, notLibs>>

\* getCurrentLibraryId: this.context.pageContext.list.id.toString()
CurrentIdRead(k, g) ==
    /\ libs[k].kind = "isDefaultLibrary"
    /\ libs[k].st = "pending"
    /\ libs[k].cur = Unsettled
    /\ libs' = [libs EXCEPT ![k].page = g, ![k].cur = GuidToString(g)]
    /\ UNCHANGED <<gateVars, notLibs>>

\* .then(([defaultId, currentId]) => defaultId === currentId)
LibraryCompared(k) ==
    /\ libs[k].kind = "isDefaultLibrary"
    /\ libs[k].st = "pending"
    /\ libs[k].def # Unsettled
    /\ libs[k].cur # Unsettled
    /\ libs' = [libs EXCEPT ![k].st = "resolved",
                            ![k].res = SameId(libs[k].def, libs[k].cur)]
    /\ UNCHANGED <<gateVars, notLibs>>

\* getDefaultLibraryId resolves with the identifier; getDefaultLibrary goes
\* on to getListById(libraryId, site) and resolves with the list.
LibraryIdReturned(k) ==
    /\ libs[k].kind # "isDefaultLibrary"
    /\ libs[k].st = "pending"
    /\ libs[k].def # Unsettled
    /\ libs' = [libs EXCEPT ![k].st = "resolved"]
    /\ UNCHANGED <<gateVars, notLibs>>

LibCall ==
    \E k \in 1..MaxLibCalls :
        IsDefaultLibrary(k) \/ GetDefaultLibrary(k) \/ GetDefaultLibraryId(k)
DefaultIdReturned ==
    \E k \in 1..MaxLibCalls, id \in LibIds \cup {Empty} : DefaultIdArrives(k, id)
CurrentIdReturned == \E k \in 1..MaxLibCalls, g \in Guids : CurrentIdRead(k, g)
Compared == \E k \in 1..MaxLibCalls : LibraryCompared(k)
IdReturned == \E k \in 1..MaxLibCalls : LibraryIdReturned(k)

NextLibs ==
    \/ LibCall
    \/ DefaultIdReturned
    \/ CurrentIdReturned
    \/ Compared
    \/ IdReturned

SpecLibs == InitReady /\ [][NextLibs]_vars

----------------------------------------------------------------------------
(* getFieldInfo on an initialized fetcher, from the point where the content
   types, the identifier list and the batch factory have resolved *)

\* Answered(f): the content types whose field query has been answered
Answered(f) == {f.order[k] : k \in 1..Len(f.order)}

\* StringIds.map(StringId => ...filter(...).inBatch(getBatch()).get()): one
\* batched field query per identifier, for a list of n identifiers.
FieldQueries(n) ==
    /\ status = "ready"
    /\ fieldInfo.st = "none"
    /\ fieldInfo' = [fieldInfo EXCEPT !.st = "querying", !.n = n]
    /\ UNCHANGED <<gateVars, notFields>>

\* The query of content type i is answered with the fields v.
FieldQueryAnswered(i, v) ==
    /\ fieldInfo.st = "querying"
    /\ i \in 1..fieldInfo.n
    /\ i \notin Answered(fieldInfo)
    /\ fieldInfo' = [fieldInfo EXCEPT
                        !.ans[i] = v,
                        !.order = Append(@, i),
                        !.values = AllSettled(@, Len(fieldInfo.order) + 1, i, v)]
    /\ UNCHANGED <<gateVars, notFields>>

\* Promise.all has every value:
\* .then(r => (r.find(test => test.length > 0) || [])[0])
FieldInfoResolves ==
    /\ fieldInfo.st = "querying"
    /\ Len(fieldInfo.order) = fieldInfo.n
    /\ fieldInfo' = [fieldInfo EXCEPT
                        !.st = "resolved",
                        !.res = FirstField(fieldInfo.values, fieldInfo.n)]
    /\ UNCHANGED <<gateVars, notFields>>

QueryFields == \E n \in 0..MaxTypes : FieldQueries(n)
FieldsReturned ==
    \E i \in 1..MaxTypes : \E v \in FieldLists(i) : FieldQueryAnswered(i, v)

NextFields ==
    \/ QueryFields
    \/ FieldsReturned
    \/ FieldInfoResolves

SpecFields == InitReady /\ [][NextFields]_vars

----------------------------------------------------------------------------
(* Claims about the initialization gate, checked under Spec *)

Calls == 1..MaxInits
OpIds == 1..MaxOps
Issued(o) == ops[o].st # "new"
Released(o) == ops[o].st \in {"released", "ran", "done"}
\* The operations issued before initialize was ever invoked.
PreInit(o) == Issued(o) /\ ops[o].ninit = 0
HandleKinds == {"util", "getWeb", "getFieldInfo"}

\* C1: the operations issued through ready() before initialize is invoked are
\* released exactly once and in the order they were issued, once an
\* initialization succeeds (operation ids are given in issue order).
C1_PreInitFifo ==
    /\ \A o \in OpIds : ops[o].runs <= 1
    /\ \A o1, o2 \in OpIds :
          (o1 < o2 /\ PreInit(o1) /\ PreInit(o2)) =>
              /\ Released(o2) => Released(o1)
              /\ ops[o2].runs = 1 => ops[o1].runs = 1
    /\ (\E c \in Calls : inits[c].pc = "done") =>
          \A o \in OpIds : PreInit(o) => Released(o)

C1_Witness ==
    /\ \E c \in Calls : inits[c].pc = "done"
    /\ PreInit(1) /\ PreInit(2)
    /\ ops[1].runs = 1 /\ ops[2].runs = 1

\* A network request is issued in this step: a raw transport request of fetch,
\* or the request of a handle utility.
NetCall(o) == ops[o].st # "done" /\ ops'[o].st = "done"
               /\ ops[o].kind \in {"fetch", "util"}

\* C2: no network call is issued before the default resource handle exists,
\* and operations issued before initialize are queued, not run and not dropped.
C2_NoNetworkBeforeDefaultHandle ==
    [][/\ \A o \in OpIds : NetCall(o) => webs["default"] # NoHandle
       /\ NInit = 0 => \A o \in OpIds :
              Issued(o) => ops[o].st = "queued" /\ o \in QueuedOps(queue)]_vars

\* C3: whenever a continuation chained on ready() starts running, status is
\* 'ready'.
C3_ContinuationRunsWhenReady ==
    [][\A o \in OpIds : ops'[o].runs > ops[o].runs => status = "ready"]_vars

\* C4: after startupRoutines fails during initialize status is 'error', and a
\* ready() call made afterwards stays pending as long as no further initialize
\* call is made (in behaviours whose only failures are startup failures).
C4_ErrorKeepsReadyPending ==
    [][/\ \A c \in Calls :
             (inits[c].pc # "failed" /\ inits'[c].pc = "failed") => status' = "error"
       /\ \A o \in OpIds :
             (/\ ops[o].st = "queued" /\ ops[o].stAt = "error"
              /\ \A c \in Calls : inits[c].thrown # TypeError
              /\ ops'[o].st # "queued") => NInit > ops[o].ninit]_vars

\* C5: if context extraction or startupRoutines fails, initialize sets status
\* to 'error' and its result fails with that same error; the step leaves the
\* pending queue and the queued continuations alone; a call whose extraction
\* or startup failed never completes successfully.
C5_FailureSetsErrorAndRethrows ==
    [][\A c \in Calls :
          /\ (inits[c].pc # "failed" /\ inits'[c].pc = "failed") =>
                /\ status' = "error"
                /\ inits[c].thrown # NoErr
                /\ inits'[c].err = inits[c].thrown
                /\ queue' = queue
                /\ ops' = ops
          /\ inits[c].thrown # NoErr =>
                /\ inits'[c].pc \in {"rej", "failed"}
                /\ inits'[c].thrown = inits[c].thrown]_vars

C5_Witness ==
    /\ status = "error"
    /\ QueuedOps(queue) # {}
    /\ \E c, d \in Calls :
          /\ inits[c].pc = "failed" /\ inits[c].err = TypeError
          /\ inits[d].pc = "failed" /\ inits[d].err \in StartupErrors

\* C6: an initialize call made while status is 'initializing' is queued and
\* does not disturb the in-flight initialization or the status it establishes:
\* when the queued call completes while the status 'ready' established by the
\* in-flight initialization is in force, it completes successfully and the
\* status stays 'ready'.
C6_QueuedInitializeKeepsStatus ==
    [][\A c \in Calls :
          (/\ inits[c].queued /\ status = "ready"
           /\ inits[c].pc \notin {"done", "failed"}
           /\ inits'[c].pc \in {"done", "failed"})
              => (status' = "ready" /\ inits'[c].pc = "done")]_vars

\* C7: status leaves 'error' only as the direct effect of a new initialize
\* call, which sets it to 'initializing'.
C7_ErrorIsTerminal ==
    [][(status = "error" /\ status' # "error") =>
          (status' = "initializing" /\ NInit' = NInit + 1)]_vars

\* C8: status leaves 'ready' only through a new initialize call, which sets it
\* to 'initializing'; it never goes from 'ready' to 'error' or 'not initialized'.
C8_ReadyRevertsOnlyByInitialize ==
    [][(status = "ready" /\ status' # "ready") =>
          (status' = "initializing" /\ NInit' = NInit + 1)]_vars

----------------------------------------------------------------------------
(* Claims about the site registry, checked under SpecSites *)

\* The calls that obtain their handle from Web(site).
Memoized(o) == ops[o].kind \in {"util", "getFieldInfo"} /\ ops[o].runs = 1

\* C9: concurrent Web(site) calls for a key without a cached handle construct
\* the handle once, all of them receive that handle, and the handle stored for
\* a key never changes afterwards.
C9_SingleFlightHandle ==
    /\ [](\A s \in SiteKeys :
            /\ built[s] <= 1
            /\ \A o \in OpIds : (Memoized(o) /\ ops[o].site = s) =>
                  (ops[o].h = webs[s] /\ webs[s] # NoHandle))
    /\ [][\A s \in SiteKeys : webs[s] # NoHandle => webs'[s] = webs[s]]_vars

C9_Witness ==
    \E o1, o2 \in OpIds :
        /\ o1 # o2
        /\ Memoized(o1) /\ Memoized(o2)
        /\ ops[o1].site = ops[o2].site
        /\ ops[o1].uncached /\ ops[o2].uncached
        /\ ops[o1].h = ops[o2].h /\ ops[o1].h # NoHandle
        /\ built[ops[o1].site] = 1

\* A completed handle request for the alias, which had no url when requested.
UnregisteredAlias(o) ==
    /\ ops[o].kind \in HandleKinds /\ ops[o].runs = 1
    /\ ops[o].site = "alias" /\ ops[o].unreg

----------------------------------------------------------------------------
(* Claims about the single-handle class, checked under SpecSingle *)

\* The setSite call o completes in this step, and no initialize and no other
\* setSite was called after it.
SetSiteCompletes(o) ==
    /\ ops[o].kind = "setSite"
    /\ ops[o].st # "done" /\ ops'[o].st = "done"
    /\ NOps = o /\ NInit = ops[o].ninit

\* C11: whenever setSite(siteKey) completes, the alias 'current' holds the url
\* registered under siteKey (the default url if siteKey is unregistered) and
\* this.web is a handle bound to that same url.
C11_SetSiteRebindsCurrentAndWeb ==
    [][\A o \in OpIds : SetSiteCompletes(o) =>
          /\ sites'["current"] = SetSiteUrl(sites', ops[o].site)
          /\ web' # NoHandle
          /\ web'.url = sites'["current"]]_vars

----------------------------------------------------------------------------
(* Claims about the batch multiplexer, checked under SpecBatch *)

SlotIds == 1..Len(slots)
Min(a, b) == IF a <= b THEN a ELSE b
Pending(kind, s) == \E i \in 1..Len(timers) :
                        timers[i].kind = kind /\ timers[i].slot = s
\* The slots the cap opened in place of slot s.
Successors(s) == {s2 \in SlotIds : slots[s2].after = s}

\* C12: for a slot opened while no other slot of its key had its window open,
\* the K calls of its window all receive its batch when K <= 50, and that one
\* batch is executed once for them; with 51 calls the slot is handed out 50
\* times and one second slot once, and each of the two is executed once.
C12_FreshWindowCoalesces ==
    \A s \in SlotIds : slots[s].fresh =>
        /\ slots[s].count = Min(slots[s].inWin, BatchCap)
        /\ slots[s].exec <= 1
        /\ (slots[s].wfired /\ ~Pending("grace", s)) => slots[s].exec = 1
        /\ slots[s].inWin <= BatchCap => Successors(s) = {}
        /\ slots[s].inWin = BatchCap + 1 =>
              /\ Cardinality(Successors(s)) = 1
              /\ \A s2 \in Successors(s) :
                    /\ slots[s2].count = 1
                    /\ slots[s2].exec <= 1
                    /\ (slots[s2].wfired /\ ~Pending("grace", s2)) =>
                          slots[s2].exec = 1

C12_Witness ==
    /\ timers = <<>>
    /\ \E s, s2, s3 \in SlotIds :
          /\ slots[s].fresh /\ slots[s].inWin = BatchCap + 1
          /\ slots[s].count = BatchCap /\ slots[s].exec = 1
          /\ slots[s2].after = s /\ slots[s2].count = 1 /\ slots[s2].exec = 1
          /\ slots[s3].fresh /\ s3 # s /\ slots[s3].inWin = 1 /\ slots[s3].exec = 1

\* C13: the calls for a key made while a slot's own window is open all receive
\* that slot's batch, up to the cap of 50: also for a slot opened by the cap.
C13_WindowCallersCoBatched ==
    \A s \in SlotIds : slots[s].count = Min(slots[s].inWin, BatchCap)

\* The call of this step returned the batch of slot s.
Returned(s) ==
    slots'[s].count > (IF s <= Len(slots) THEN slots[s].count ELSE 0)

\* C14: the factory never returns a batch whose window timer has fired or
\* that was executed, nor one handed out 50 times already; a call arriving
\* when the table has no slot for the key or a slot at the cap receives a
\* slot opened in that call.  The table never holds a closed slot.
C14_NeverReturnsClosedBatch ==
    /\ [](\A k \in BatchKeys : batches[k] # NoSlot =>
            /\ ~slots[batches[k]].wfired
            /\ slots[batches[k]].exec = 0)
    /\ [][\A s \in 1..Len(slots') : Returned(s) =>
            /\ ~slots'[s].wfired
            /\ slots'[s].exec = 0
            /\ slots'[s].count <= BatchCap
            /\ batches'[slots'[s].key] = s
            /\ LET e == batches[slots'[s].key]
               IN (e = NoSlot \/ slots[e].count >= BatchCap) =>
                     (s = Len(slots) + 1 /\ slots'[s].count = 1)]_vars

C14_Witness ==
    \E s2, s3 \in SlotIds :
        /\ slots[s2].after # NoSlot /\ slots[s2].count = 1
        /\ slots[s3].after = NoSlot /\ s3 > s2 /\ slots[s3].count = 1
        /\ \A s \in SlotIds : s < s3 => slots[s].wfired

\* C15: every slot was handed out, and is executed or still has the timer
\* pending that leads to its execution (its window timer, or after that the
\* second timer); a pending timer can always fire.
C15_HandedOutBatchIsExecuted ==
    /\ \A s \in SlotIds :
          /\ slots[s].count >= 1
          /\ \/ ~slots[s].wfired /\ Pending("window", s) /\ slots[s].exec = 0
             \/ slots[s].wfired /\ Pending("grace", s) /\ slots[s].exec = 0
             \/ slots[s].wfired /\ slots[s].exec = 1
    /\ timers # <<>> => ENABLED (WindowCloses \/ BatchExecutes)

C15_Witness ==
    /\ timers = <<>>
    /\ \E s, s2 \in SlotIds :
          /\ slots[s].count = BatchCap /\ slots[s2].after = s
          /\ slots[s2].inWin > slots[s2].count
          /\ slots[s].exec = 1 /\ slots[s2].exec = 1

----------------------------------------------------------------------------
(* Claims about the content-type cache, checked under SpecTypes *)

CallerIds == 1..Len(callers)
CallersOf(key) == {n \in CallerIds : callers[n].key = key}
LookupsOf(key) == {o \in OpIds : lookups[o].st # "none" /\ lookups[o].key = key}

\* C16: for the calls made for a key while it is not resolved, exactly one
\* lookup is started, and once it is stored every one of these callers has
\* received the same list, the stored one; none receives anything before.
C16_SingleFlightLookup ==
    \A key \in TypeKeys :
        /\ Cardinality(LookupsOf(key)) = (IF CallersOf(key) = {} THEN 0 ELSE 1)
        /\ \A n \in CallersOf(key) :
              callers[n].res = contentTypes[key].ids
        /\ ~Resolved(contentTypes, key) =>
              \A n \in CallersOf(key) :
                  \E i \in 1..Len(contentTypes[key].callbacks) :
                      contentTypes[key].callbacks[i] = n

C16_Witness ==
    \E n, m \in CallerIds :
        /\ n # m /\ callers[n].key = callers[m].key
        /\ callers[n].at = "absent" /\ callers[m].at = "pending"
        /\ callers[n].res # NoIds /\ callers[n].res = callers[m].res
        /\ Cardinality(LookupsOf(callers[n].key)) = 1

\* C17: a resolved entry stays as it is: its list never changes, its waiter
\* list is and stays empty, no lookup is started or moved for its key, and a
\* call made for its key completes at once with that list; also in and after
\* a new initialize cycle.
C17_ResolvedIsPermanent ==
    /\ [](\A key \in TypeKeys : Resolved(contentTypes, key) =>
             contentTypes[key].callbacks = <<>>)
    /\ [][\A key \in TypeKeys : Resolved(contentTypes, key) =>
             /\ contentTypes'[key] = contentTypes[key]
             /\ \A o \in OpIds :
                    (lookups'[o].st # "none" /\ lookups'[o].key = key) =>
                        lookups'[o] = lookups[o]
             /\ \A n \in 1..Len(callers') : callers'[n].key = key =>
                    /\ callers'[n].res = contentTypes[key].ids
                    /\ n > Len(callers) => callers'[n].at = "resolved"]_vars

C17_Witness ==
    \E n \in CallerIds, o \in OpIds :
        /\ callers[n].at = "resolved" /\ callers[n].ninit = 2
        /\ callers[n].res = contentTypes[callers[n].key].ids
        /\ lookups[o].key = callers[n].key /\ lookups[o].st = "stored"
        /\ ops[o].ninit = 1
        /\ status = "initializing"

\* C18: once the lookup of a key has failed and every pending reaction has
\* run, each caller waiting on that key has failed with the error of the lookup.
C18_LookupFailurePropagates ==
    \A o \in OpIds : (lookups[o].st = "failed" /\ jobs = <<>>) =>
        \A n \in CallersOf(lookups[o].key) : callers[n].err = lookups[o].err

----------------------------------------------------------------------------
(* Claims about the taxonomy path builder, checked under SpecTax *)

TermIdx == 1..Len(taxTerms)
\* The ';'-join of the first i + 1 requested segments (i counts from 0).
Prefix(i) == Join(SubSeq(Split(taxReq), 1, i + 1))
\* The indices i for which some returned term has the path Prefix(i).
Hits == {i \in 0..(Len(Split(taxReq)) - 1) :
            \E t \in TermIdx : taxTerms[t].PathOfTerm = Prefix(i)}
\* getTaxonomyClosestParent has returned.
Matched == taxPc \in {"writing", "done"} \/ taxWrites # <<>>

\* C19: the score returned is the largest index i such that a returned term
\* has the path Prefix(i), the term returned is the first term in returned
\* order with that path, and the result is (-1, undefined) when no term has
\* the path of a prefix.
C19_ClosestPrefix ==
    Matched =>
        IF Hits = {} THEN taxMatch = NoMatch
        ELSE LET best == CHOOSE i \in Hits : \A j \in Hits : j <= i
             IN /\ taxMatch.score = best
                /\ taxMatch.term \in TermIdx
                /\ taxTerms[taxMatch.term].PathOfTerm = Prefix(best)
                /\ \A t \in TermIdx : t < taxMatch.term =>
                       taxTerms[t].PathOfTerm # Prefix(best)

\* The example of the claim with the name A for C: terms 'A' and 'A;B', the
\* request 'A;B;A', the result the term 'A;B' at score 1.
C19_Witness ==
    /\ Matched
    /\ taxReq = <<"A", ";", "B", ";", "A">>
    /\ Len(taxTerms) = 2
    /\ taxTerms[1].PathOfTerm = <<"A">>
    /\ taxTerms[2].PathOfTerm = <<"A", ";", "B">>
    /\ taxMatch = [score |-> 1, term |-> 2]

\* The segments strictly after index score (0-based), in path order.
ToCreate == SubSeq(Split(taxReq), taxMatch.score + 2, Len(Split(taxReq)))

\* C20: the writes posted are, in order, one per segment strictly after index
\* score and for that name; the parent of the first is the matched term, or
\* the termset marked as root when nothing matched; the parent of each later
\* write is the identifier the previous write returned; when the build is done
\* every such segment was written once and the result is the identifier the
\* last write returned.
C20_WritesFollowThePath ==
    Matched =>
        /\ Len(taxWrites) <= Len(ToCreate)
        /\ \A n \in 1..Len(taxWrites) :
              /\ taxWrites[n].newName = ToCreate[n]
              /\ n = 1 =>
                    /\ taxMatch.term # 0 =>
                          /\ taxWrites[n].parentId = TermId(taxMatch.term)
                          /\ taxWrites[n].parentType = 4
                    /\ taxMatch.term = 0 =>
                          /\ taxWrites[n].parentId = TermsetId
                          /\ taxWrites[n].parentType = 3
              /\ n > 1 =>
                    /\ taxWrites[n - 1].ret # NoId
                    /\ taxWrites[n].parentId = taxWrites[n - 1].ret
                    /\ taxWrites[n].parentType = 4
        /\ taxPc = "done" =>
              /\ Len(taxWrites) = Len(ToCreate)
              /\ \A n \in 1..Len(taxWrites) : taxWrites[n].ret = CreatedId(n)
              /\ taxWrites # <<>> => taxRes = taxWrites[Len(taxWrites)].ret

C20_Witness ==
    /\ taxPc = "done"
    /\ taxReq = <<"A", ";", "B", ";", "A">>
    /\ taxMatch.score = 0 /\ taxMatch.term = 2
    /\ Len(taxWrites) = 2
    /\ taxWrites[1].newName = <<"B">> /\ taxWrites[1].parentId = TermId(2)
    /\ taxWrites[2].newName = <<"A">> /\ taxWrites[2].parentId = CreatedId(1)
    /\ taxRes = CreatedId(2)

\* The returned terms whose path is the whole requested path.
FullMatches == {t \in TermIdx : taxTerms[t].PathOfTerm = taxReq}

\* C21: when a returned term has the whole requested path, buildTaxonomyPath
\* posts no CreateTaxonomyItem request at all and resolves with the
\* identifier of the matched term (the first such term in returned order).
C21_ExistingPathWritesNothing ==
    (taxPc \in {"writing", "done", "failed"} /\ FullMatches # {}) =>
        /\ taxWrites = <<>>
        /\ taxPc = "done"
        /\ taxErr = NoErr
        /\ taxRes = TermId(CHOOSE t \in FullMatches : \A u \in FullMatches : t <= u)

C21_Witness ==
    /\ taxPc = "done"
    /\ taxReq = <<"A", ";", "B">>
    /\ Len(taxTerms) = 2
    /\ taxTerms[1].PathOfTerm = <<"A">>
    /\ taxTerms[2].PathOfTerm = <<"A", ";", "B">>
    /\ taxWrites = <<>>
    /\ taxRes = TermId(2)

\* C22: once the write for a segment has failed the call has rejected with
\* the error of that write and has no result; the writes before it stand as
\* answered with the identifiers they created, the segments after it were
\* never posted, and no further request of any kind can follow.
C22_FailedWriteAbortsChain ==
    (taxPc = "failed" /\ taxWrites # <<>>) =>
        LET k == Len(taxWrites)
        IN /\ taxWrites[k].err \in TaxErrors
           /\ taxWrites[k].ret = NoId
           /\ taxErr = taxWrites[k].err
           /\ taxRes = NoId
           /\ k <= Len(ToCreate)
           /\ \A n \in 1..(k - 1) :
                 taxWrites[n].ret = CreatedId(n) /\ taxWrites[n].err = NoErr
           /\ ~ENABLED (BuildPath \/ TermsReturned \/ WriteResponds \/ RemoteFails)

C22_Witness ==
    /\ taxPc = "failed"
    /\ taxReq = <<"A", ";", "B", ";", "A">>
    /\ taxMatch = NoMatch
    /\ Len(taxWrites) = 2
    /\ taxWrites[1].ret = CreatedId(1)
    /\ taxWrites[2].newName = <<"B">> /\ taxWrites[2].err = "E403"

\* The writes posted and neither answered nor failed.
Outstanding == {n \in 1..Len(taxWrites) :
                   taxWrites[n].ret = NoId /\ taxWrites[n].err = NoErr}

\* C28: at most one CreateTaxonomyItem request is outstanding at any time,
\* it is the last one posted, and every write but the last has been answered
\* with the identifier the next write names as its parent.
C28_WritesAreSequential ==
    /\ Cardinality(Outstanding) <= 1
    /\ Outstanding \subseteq {Len(taxWrites)}
    /\ taxPc = "writing" <=> Outstanding # {}
    /\ \A n \in 1..(Len(taxWrites) - 1) :
          /\ taxWrites[n].ret # NoId
          /\ taxWrites[n + 1].parentId = taxWrites[n].ret

C28_Witness ==
    /\ taxPc = "writing"
    /\ Len(taxWrites) = 3
    /\ taxWrites[1].ret = CreatedId(1)
    /\ taxWrites[2].ret = CreatedId(2)
    /\ taxWrites[3].ret = NoId
    /\ Outstanding = {3}

----------------------------------------------------------------------------
(* Claims about the library utilities, checked under SpecLibs *)

\* C23: an isDefaultLibrary call that completes does so with true exactly
\* when the identifier the site answered for its default library is the
\* identifier of the library of the current page, and with false when the
\* two differ.
C23_IsDefaultLibrary ==
    \A k \in 1..MaxLibCalls :
        (libs[k].kind = "isDefaultLibrary" /\ libs[k].st = "resolved") =>
            /\ libs[k].def \in LibIds
            /\ libs[k].page \in Guids
            /\ libs[k].res <=> (libs[k].def = libs[k].page.guid)

\* The two examples of the claim: L1 against L1, and L1 against L2.
C23_Witness ==
    /\ libs[1].kind = "isDefaultLibrary" /\ libs[1].st = "resolved"
    /\ libs[1].def = "L1" /\ libs[1].page.guid = "L1" /\ libs[1].res
    /\ libs[2].kind = "isDefaultLibrary" /\ libs[2].st = "resolved"
    /\ libs[2].def = "L1" /\ libs[2].page.guid = "L2" /\ ~libs[2].res

----------------------------------------------------------------------------
(* Further claims about the batch multiplexer, checked under SpecBatch and,
   for two factories of different timeouts, under SpecOrder *)

\* The pending timers of slot s after the step.
TimersOf(tm, s) == {i \in 1..Len(tm) : tm[i].slot = s}

\* C25: the count of a slot never exceeds 50, and a factory call that finds
\* the slot of its key at 50 creates a fresh slot and counts itself there,
\* the window timer of the full slot still pending or not.
C25_CountNeverExceedsCap ==
    [][/\ \A s \in 1..Len(slots') : slots'[s].count <= BatchCap
       /\ \A s \in 1..Len(slots) :
             (/\ batches[slots[s].key] = s
              /\ slots[s].count = BatchCap
              /\ SumCounts(slots') > SumCounts(slots)
              /\ batches'[slots[s].key] # s) =>
                 /\ Len(slots') = Len(slots) + 1
                 /\ batches'[slots[s].key] = Len(slots')
                 /\ slots'[Len(slots')].count = 1
                 /\ slots'[Len(slots')].after = s
                 /\ slots'[s].count = BatchCap
       /\ \A s \in 1..Len(slots) :
             (slots[s].count = BatchCap /\ s <= Len(slots')) =>
                 slots'[s].count = BatchCap]_vars

C25_Witness ==
    /\ Len(slots) = 2
    /\ slots[1].count = BatchCap /\ ~slots[1].wfired
    /\ slots[2].after = 1 /\ slots[2].count = 1
    /\ batches[slots[1].key] = 2

\* C26: no batch is executed twice; a slot whose batch has not been executed
\* has exactly one timer pending (its window timer, or its grace timer once
\* the window timer fired), so its execution is still to come; a batch is
\* executed only after the window timer of its slot fired and while the slot
\* is not the table entry of its key, and an executed slot has no timer left.
C26_ExecutedExactlyOnce ==
    [][\A s \in 1..Len(slots') :
          /\ slots'[s].exec <= 1
          /\ slots'[s].exec = 0 =>
                /\ Cardinality(TimersOf(timers', s)) = 1
                /\ \A i \in TimersOf(timers', s) :
                      timers'[i].kind = "window" <=> ~slots'[s].wfired
          /\ slots'[s].exec = 1 =>
                /\ TimersOf(timers', s) = {}
                /\ slots'[s].wfired
                /\ ~slots'[s].inTable
                /\ batches'[slots'[s].key] # s
          /\ (s <= Len(slots) /\ slots'[s].exec # slots[s].exec) =>
                /\ slots[s].wfired
                /\ batches[slots[s].key] # s
                /\ \E i \in TimersOf(timers, s) : timers[i].kind = "grace"]_vars

C26_Witness ==
    /\ Len(slots) = 2
    /\ slots[1].count = BatchCap /\ slots[2].after = 1
    /\ slots[1].exec = 1 /\ slots[2].exec = 1
    /\ timers = <<>>

\* C27: a batch is executed only after the batch of every slot whose window
\* timer fired before its own, whatever the keys of the two slots and the
\* order in which the slots were created and used.
C27_ExecutedInCloseOrder ==
    \A x, y \in 1..Len(slots) :
        /\ slots[y].exec >= 1 => slots[y].closed # 0
        /\ (/\ slots[y].exec >= 1
            /\ slots[x].closed # 0
            /\ slots[x].closed < slots[y].closed) => slots[x].exec >= 1

\* The slot of the 50 ms key was created and used first, the slot of the 10 ms
\* key closed first and was executed first.
C27_Witness ==
    /\ Len(slots) = 2
    /\ slots[1].key = <<50, "default">> /\ slots[1].count = 2
    /\ slots[2].key = <<10, "default">> /\ slots[2].count = 1
    /\ slots[2].closed = 1 /\ slots[1].closed = 2
    /\ slots[2].exec = 1 /\ slots[1].exec = 0

----------------------------------------------------------------------------
(* Further claims about the initialization gate, checked under Spec *)

\* The initialize call whose ready handler runs in this step.
Drains(c) == inits[c].pc = "readyH" /\ inits'[c].pc = "done"

\* C24: a continuation queued while status is 'error' leaves the queue only
\* in the ready handler of an initialize call made after it was queued (it
\* stays pending until initialize is attempted again and that attempt
\* succeeds); it is then run once, and such continuations run in the order
\* they were queued.
C24_ErrorQueueWaitsForInitialize ==
    [][/\ \A o \in OpIds :
             (/\ ops[o].stAt = "error"
              /\ ops[o].st = "queued"
              /\ ops'[o].st # "queued") =>
                 \E c \in Calls : c > ops[o].ninit /\ Drains(c)
       /\ \A o \in OpIds : ops[o].stAt = "error" => ops'[o].runs <= 1
       /\ \A o1, o2 \in OpIds :
             (/\ o1 < o2
              /\ ops[o1].stAt = "error" /\ ops[o2].stAt = "error"
              /\ ops'[o2].runs = 1) => ops'[o1].runs = 1]_vars

\* C29: startupRoutines is called only once the setup is in place (a context
\* stored, the base url extracted, the default handle built); the ready
\* handler of a call is reached only from the resolution of that call's
\* startupRoutines; a queued continuation leaves the queue only in a ready
\* handler and is invoked only after it left the queue.
C29_StartupBeforeDrain ==
    [][/\ \A c \in Calls :
             (inits[c].pc = "startupCall" /\ inits'[c].pc = "startup") =>
                 /\ context # NoContext
                 /\ urls.base # Undefined
                 /\ webs["default"] # NoHandle
       /\ \A c \in Calls :
             (inits[c].pc # "readyH" /\ inits'[c].pc = "readyH") =>
                 inits[c].pc = "startup"
       /\ \A o \in OpIds :
             (ops[o].st = "queued" /\ ops'[o].st # "queued") =>
                 /\ ops'[o].st = "released"
                 /\ ops'[o].runs = 0
                 /\ \E c \in Calls : Drains(c)
       /\ \A o \in OpIds :
             ops'[o].runs > ops[o].runs => ops[o].st = "released"]_vars

\* A continuation queued before any initialize call was invoked after the
\* second initialize call, whose startupRoutines resolved, drained the queue;
\* the first call had failed.
C29_Witness ==
    /\ ops[1].stAt = "not initialized" /\ ops[1].runs = 1
    /\ inits[1].pc = "failed" /\ inits[1].err \in StartupErrors
    /\ inits[2].pc = "done" /\ ~inits[2].queued

\* C30: when an initialize(context) call that was not queued completes
\* successfully, Web() with no site key resolves with a handle bound to the
\* absolute url of that context.
C30_DefaultHandleFollowsContext ==
    [][\A c \in Calls :
          (Drains(c) /\ ~inits[c].queued) =>
              WebMemo(webs', "default", nHandles',
                      SiteUrl(sites', "default")).url = AbsoluteUrl(inits[c].ctx)]_vars

\* The initialize call c calls startupRoutines in this step.
CallsStartup(c) == inits[c].pc = "startupCall" /\ inits'[c].pc = "startup"

\* C33: startupRoutines is invoked once per initialization cycle: only by the
\* call that started the cycle, never by a call that arrived while status was
\* 'initializing' and was queued.
C33_StartupOncePerCycle ==
    [][\A c \in Calls : CallsStartup(c) => ~inits[c].queued]_vars

\* The most recent initialize call that was not queued.
IsLastCycle(c) ==
    /\ inits[c].pc # "new" /\ ~inits[c].queued
    /\ \A d \in Calls : d > c => (inits[d].pc = "new" \/ inits[d].queued)

\* C34: status is 'ready' only if the startupRoutines of the most recent
\* non-queued initialize call have resolved and its ready handler has run;
\* while that call is on its way to or waiting for its startupRoutines, status
\* is 'initializing'.
C34_ReadyMeansLastStartupResolved ==
    \A c \in Calls :
        IsLastCycle(c) =>
            /\ status = "ready" => inits[c].pc = "done"
            /\ inits[c].pc \in {"web", "resolve", "startupCall", "startup"} =>
                  status = "initializing"

\* C35: whenever status is 'ready' the queue is empty, and no continuation
\* and no initialize call is waiting in it.
C35_ReadyQueueEmpty ==
    status = "ready" =>
        /\ queue = <<>>
        /\ \A o \in OpIds : ops[o].st # "queued"
        /\ \A c \in Calls : inits[c].pc # "queued"

\* Status 'ready' after a drain that released a continuation queued in status
\* 'error' and a queued initialize call.
C35_Witness ==
    /\ status = "ready" /\ queue = <<>>
    /\ ops[1].stAt = "error" /\ ops[1].st = "released"
    /\ \E c \in Calls : inits[c].queued /\ inits[c].pc = "startupCall"

----------------------------------------------------------------------------
(* Further claims about the multiplexer, the libraries, the single-handle
   class and the content-type cache *)

\* C36: the slot in the table of a key has a count between 1 and 50, every
\* slot was handed out at least once, and so was every slot whose batch has
\* been executed.
C36_TableSlotCounted ==
    /\ \A key \in OrderKeys :
          batches[key] # NoSlot =>
              /\ batches[key] \in 1..Len(slots)
              /\ slots[batches[key]].count \in 1..BatchCap
    /\ \A s \in 1..Len(slots) : slots[s].count >= 1
    /\ \A s \in 1..Len(slots) : slots[s].exec >= 1 => slots[s].count >= 1

\* A slot handed out once and executed, and the slot in the table at 50.
C36_Witness ==
    /\ Len(slots) = 2
    /\ slots[1].count = 1 /\ slots[1].exec = 1
    /\ batches[slots[2].key] = 2 /\ slots[2].count = BatchCap

\* C32: a call of getDefaultLibraryId, getDefaultLibrary or isDefaultLibrary
\* whose request was answered without a default library identifier has
\* rejected with 'Could not find default documents library.', and no call
\* ever issues a second request for the default library.
C32_NoDefaultLibraryFails ==
    \A k \in 1..MaxLibCalls :
        /\ libs[k].reqs <= 1
        /\ libs[k].def = Empty =>
              /\ libs[k].st = "rejected"
              /\ libs[k].err = NotFound
              /\ libs[k].reqs = 1
        /\ libs[k].st = "rejected" => libs[k].def = Empty

C32_Witness ==
    /\ libs[1].kind = "isDefaultLibrary" /\ libs[1].st = "rejected"
    /\ libs[1].err = NotFound /\ libs[1].cur = "L1"
    /\ libs[2].kind = "getDefaultLibrary" /\ libs[2].st = "rejected"
    /\ libs[2].err = NotFound

\* C39: two getContentTypeIds requests share a cache entry only if they
\* name the same site and the same list, an omitted one differing from every
\* string; and a request that received a list received the one a lookup
\* read for its own site and list.
C39_EntryPerScope ==
    /\ \A i, j \in 1..Len(callers) :
          callers[i].key = callers[j].key => callers[i].scope = callers[j].scope
    /\ \A i \in 1..Len(callers) :
          callers[i].res # NoIds =>
              \E o \in 1..MaxOps :
                  /\ lookups[o].st # "none"
                  /\ lookups[o].scope = callers[i].scope
                  /\ lookups[o].val = callers[i].res

\* C38: in the single-handle class a gated utility that reads this.web runs
\* its continuation only when this.web is assigned; none of them fails on
\* an undefined handle.
C38_WebAssignedBeforeUse ==
    \A o \in OpIds :
        (ops[o].kind = "getProperties" /\ ops[o].runs > 0) =>
            /\ ops[o].st # "failed"
            /\ ops[o].h # NoHandle

\* C37: the term-store query of a getTermsetById call is sent to the url
\* of the requested site (or of the current one) as the registry holds it
\* when the request goes out, followed by /_vti_bin/client.svc/ProcessQuery,
\* whether the call was made before or after initialize.
C37_TermStoreUrl ==
    [][\A o \in OpIds :
          (requests[o].sent = Undefined /\ requests'[o].sent # Undefined) =>
              requests'[o].sent =
                  SiteUrlOrCurrent(sites', ops[o].site) \o <<ProcessQuery>>]_vars

\* NonEmpty: the content types, by position in the identifier list, whose
\* field query the remote answered with at least one field
NonEmpty == {i \in 1..fieldInfo.n : Len(fieldInfo.ans[i]) > 0}

\* C31: getFieldInfo resolves with the first field the remote returned for
\* the first content type, in identifier-list order, whose query result is
\* not empty, whatever the order in which the results arrived; with no
\* field when every result is empty.
C31_FirstFieldInListOrder ==
    fieldInfo.st = "resolved" =>
        IF NonEmpty = {} THEN fieldInfo.res = NoField
        ELSE LET first == CHOOSE i \in NonEmpty : \A j \in NonEmpty : i <= j
             IN fieldInfo.res = fieldInfo.ans[first][1]

\* Three content types answered in the order 3, 2, 1; the first is empty,
\* the second and third are not: the result is the first field of the second.
C31_Witness ==
    /\ fieldInfo.st = "resolved" /\ fieldInfo.n = 3
    /\ fieldInfo.order = <<3, 2, 1>>
    /\ fieldInfo.ans[1] = <<>>
    /\ Len(fieldInfo.ans[2]) = 2 /\ Len(fieldInfo.ans[3]) = 1
    /\ fieldInfo.res = Field(2, 1)

====
